---- MODULE Spec2Model ----
(***************************************************************************)
(* Model of the media gallery plugin (src/main.js, first build, lines      *)
(* 1-1547): the LRU thumbnail cache, the thumbnail worker pool, the media  *)
(* item loader and the lightbox navigation.                                *)
(***************************************************************************)
EXTENDS Integers, Sequences, FiniteSets, TLC

\* ------------------------------------------------------------------------
\* Bounds of the model
\* ------------------------------------------------------------------------

\* Capacity the cache is constructed with (the plugin passes 200).
maxSize == 2

\* Keys a client of the cache may use: one more than the cache can hold.
Keys == 1 .. (maxSize + 1)

\* Slots of the worker pool (the plugin sets maxWorkers to 4).
maxWorkers == 2

\* File paths of the vault.
NumPaths == 3

Paths == 1 .. NumPaths

\* Thumbnail requests followed through the worker pool.
MaxRequests == 3

\* Calls of loadMediaElement followed (one per gallery cell).
MaxLoads == 3

\* Longest file list a lightbox is opened on.
MaxFiles == 5

\* Last value of the millisecond clock read by Date.now().
MaxClock == 1

\* Length of the lists the zoom is followed on.
ZoomFiles == 2

\* Calls of openMediaLightbox followed.
MaxOpens == 2

\* Calls of openMediaLightbox followed where files are deleted as well.
MaxSessions == 1

\* Refresh timers pending at a time.
MaxTimers == 2

\* Media files in the store when the gallery is first rendered.
NumVault == 2

\* The strip shows at most 20 thumbnails (lines 1042 and 1207).
maxVisibleThumbs == 20

\* Zoom levels are counted in steps of 0.2 (line 1424): fifths.
ZoomUnit == 5

\* The zoom is clamped to [1, 5] (lines 1407, 1413, 1425).
MinZoom == 1

MaxZoom == 5

\* Largest config.limit of a render pass.
MaxLimit == 2

\* The values of config.batchSize followed.
BatchSizes == {0 - 1, 1, 2}

\* Calls of renderBatchItems by itself that are followed when the start
\* index goes down instead of up.
MaxRecursion == 2

\* Pointer positions over the container, normalized (lines 1462-1463).
Pointer == {0 - 1, 0, 1}

\* Thumbnail payloads: "w" is produced by a worker, "f" by the fallback.
Values == {"w", "f"}

\* The absent marker (JavaScript's undefined).
undefined == "undefined"

\* ------------------------------------------------------------------------
\* State
\* ------------------------------------------------------------------------
VARIABLES
    cache,      \* LRUCache.cache: the Map, as its entries in insertion order
    lruCall,    \* the last call made on the cache: [op, key, value]
    lruResult,  \* what that call returned
    recency,    \* history: every key ever touched, least recently touched first
    insertRun   \* history: the keys set since the cache was last empty by
                \* construction or clear, while they are distinct and no get
                \* intervened

VARIABLES
    poolInit,   \* onload has run initWorkerPool
    workerPool, \* this.workerPool: the busy flag of each slot, in order
    now,        \* Date.now()
    nextReq,    \* number of the next request entering the dispatch code
    reqs,       \* the requests that entered the dispatch code, by number
    watchdogs,  \* pending 5000 ms timers, in the order they were set
    lastLookup  \* the last call of getVideoThumbnailWorker and how it ended

VARIABLES
    pendingRequests, \* this.pendingRequests: the keys of the Map
    loads            \* the calls of loadMediaElement, by number: where each
                     \* stands and the path it is for

VARIABLES
    lbOpen,       \* the overlay #media-lightbox-overlay is in the document
    mediaFiles,   \* state.mediaFiles
    currentIndex, \* state.currentIndex
    randomMode,   \* state.randomMode
    lbCall,       \* the last handler run on the lightbox: [op, direction];
                  \* for deleteCurrentFile also what confirm() answered,
                  \* how vault.delete ended, whether it was called, the
                  \* Notice shown and the index before the call; for a zoom
                  \* handler whether the image was panned before it
    openedAt,     \* history: startIndex of the last openMediaLightbox
    navLog        \* history: the directions navigated since the lightbox was
                  \* opened, while random mode was off at each of them

VARIABLES
    slideshowActive,  \* state.slideshowActive
    timerRunning,     \* the interval of state.slideshowInterval is set and
                      \* not cleared
    intervalDisabled, \* intervalInput.disabled
    keyHandler,       \* the keyHandler of the instance is a keydown listener
                      \* of the document
    wheelHandler,     \* its wheelHandler is a wheel listener of the main area
    thumbs,           \* the indices the strip has a thumbnail for
    zombies,          \* what earlier instances left behind when their
                      \* overlay was removed by a later openMediaLightbox:
                      \* [keyHandler, timerRunning, slideshowActive,
                      \* container]
                      \* and the history flag closed (closeLightbox ran on
                      \* it)
    opens,            \* number of calls of openMediaLightbox
    filesRef,         \* which array state.mediaFiles is
    lbContainer,      \* state.galleryContainer: "none", or whether the
                      \* container is "attached" to its parent or "detached"
    deletedInSession, \* history: a file was deleted since the lightbox opened
    refreshTimers,    \* pending 100 ms timers of onFileDeleted, each with the
                      \* gallery container it refreshes
    vault,            \* the media files in the store
    galleryFiles,     \* the array `files` of the last render pass
    renderedFiles,    \* history: that array as it was when the pass made it
    lazyMode,         \* config.enableLazyLoad of the last render pass
    cellFiles,        \* per cell of the grid: whether it is loaded and, in
                      \* lazy mode, the array it built at load
    galleryRendered   \* a render pass has made a gallery container

VARIABLES
    zoomShown,  \* the media container shows an image with zoom handlers
    zoomLevel,  \* zoomLevel of that image, in fifths
    panX,       \* panX
    panY,       \* panY
    activeThumbs  \* the indices of the thumbnails of the strip that carry
                  \* the class 'active'

VARIABLES
    unloaded,       \* onunload has run
    observed,       \* the cells the IntersectionObserver observes
    aborted,        \* signal.aborted of the render pass followed
    passPc,         \* where that pass stands: "none", at the await of
                    \* "discovery", in the "batch" loop, at the await of a
                    \* cell's "load", or "done"
    config,         \* its config
    sortedFiles,    \* sortedFiles of createGallery (files of renderGallery)
    filesToDisplay, \* filesToDisplay of renderGallery (files of
                    \* renderBatchItems)
    nextIndex,      \* the loop variable i of renderBatchItems
    items,          \* the cells of the grid, in order: the file, what the
                    \* cell shows, the index and the list its click handler
                    \* captured, whether a click handler is attached, and
                    \* the thumbnail request its load awaits (0: none)
    infoBar,        \* the text of the info bar
    nodes           \* the other children of el: the "loading" indicator,
                    \* the "empty" message, the "error" message, the
                    \* gallery "container"

renderVars == <<unloaded, observed, aborted, passPc, config, sortedFiles,
                filesToDisplay, nextIndex, items, infoBar, nodes>>

lruVars == <<cache, lruCall, lruResult, recency, insertRun>>

lbVars == <<lbOpen, mediaFiles, currentIndex, randomMode, lbCall, openedAt, navLog>>

loadVars == <<pendingRequests, loads>>

timerVars == <<slideshowActive, timerRunning, intervalDisabled>>

handlerVars == <<keyHandler, wheelHandler>>

galleryVars == <<vault, galleryFiles, renderedFiles, lazyMode, cellFiles, galleryRendered>>

viewVars == <<slideshowActive, timerRunning, intervalDisabled, keyHandler,
              wheelHandler, thumbs, zombies, opens, filesRef, lbContainer,
              deletedInSession, refreshTimers, vault, galleryFiles, renderedFiles, lazyMode,
              cellFiles, galleryRendered>>

zoomVars == <<zoomShown, zoomLevel, panX, panY, activeThumbs>>

poolVars == <<poolInit, workerPool, now, nextReq, reqs, watchdogs, lastLookup>>

vars == <<cache, lruCall, lruResult, recency, insertRun,
          poolInit, workerPool, now, nextReq, reqs, watchdogs, lastLookup,
          pendingRequests, loads,
          lbOpen, mediaFiles, currentIndex, randomMode, lbCall, openedAt, navLog,
          slideshowActive, timerRunning, intervalDisabled, keyHandler,
          wheelHandler, thumbs, zombies, opens, filesRef, lbContainer,
          deletedInSession, refreshTimers, vault, galleryFiles, renderedFiles, lazyMode,
          cellFiles, galleryRendered,
          zoomShown, zoomLevel, panX, panY, activeThumbs,
          unloaded, observed, aborted, passPc, config, sortedFiles,
          filesToDisplay, nextIndex, items, infoBar, nodes>>

\* ------------------------------------------------------------------------
\* Helpers on sequences (a JavaScript Map iterates in insertion order)
\* ------------------------------------------------------------------------
Range(s) == {s[i] : i \in DOMAIN s}

RemoveAt(s, i) == SubSeq(s, 1, i - 1) \o SubSeq(s, i + 1, Len(s))

\* Map.prototype.has
MapHas(m, key) == \E i \in DOMAIN m : m[i].key = key

MapIndex(m, key) == CHOOSE i \in DOMAIN m : m[i].key = key

\* Map.prototype.get
MapGet(m, key) == IF MapHas(m, key) THEN m[MapIndex(m, key)].value ELSE undefined

\* Map.prototype.delete
MapDelete(m, key) == IF MapHas(m, key) THEN RemoveAt(m, MapIndex(m, key)) ELSE m

\* Map.prototype.set: an existing key keeps its position, a new key goes last
MapSet(m, key, value) ==
    IF MapHas(m, key)
    THEN [m EXCEPT ![MapIndex(m, key)] = [key |-> key, value |-> value]]
    ELSE Append(m, [key |-> key, value |-> value])

MapKeys(m) == {m[i].key : i \in DOMAIN m}

\* ------------------------------------------------------------------------
\* LRUCache (src/main.js 3-30)
\* ------------------------------------------------------------------------

\* get(key): the cache after the call
GetNoPromote(c, key) == c

LRUGetCache(c, key) ==
    IF ~MapHas(c, key) THEN c
    ELSE LET value == MapGet(c, key)
         IN  MapSet(MapDelete(c, key), key, value)

\* get(key): the value returned
LRUGetResult(c, key) ==
    IF ~MapHas(c, key) THEN undefined ELSE MapGet(c, key)

\* set(key, value): the cache after the call
SetNoEvict(c, key, value) == MapSet(MapDelete(c, key), key, value)

SetEvictNewest(c, key, value) ==
    IF MapHas(c, key) THEN MapSet(MapDelete(c, key), key, value)
    ELSE IF Len(c) >= maxSize
         THEN MapSet(MapDelete(c, c[Len(c)].key), key, value)
         ELSE MapSet(c, key, value)

LRUSetCache(c, key, value) ==
    IF MapHas(c, key) THEN MapSet(MapDelete(c, key), key, value)
    ELSE IF Len(c) >= maxSize
         THEN LET firstKey == c[1].key
              IN  MapSet(MapDelete(c, firstKey), key, value)
         ELSE MapSet(c, key, value)

\* clear(): the cache after the call
LRUClearCache(c) == <<>>

\* History bookkeeping: move key to the most recently touched end
Touch(r, key) ==
    Append(SelectSeq(r, LAMBDA k : k # key), key)

NoCall == [op |-> "none", key |-> 0, value |-> undefined]

InitLRU ==
    /\ cache = <<>>
    /\ lruCall = NoCall
    /\ lruResult = undefined
    /\ recency = <<>>
    /\ insertRun = [ok |-> TRUE, keys |-> <<>>]

\* A client calls thumbnailCache.get(key)
LRUGet(key) ==
    /\ cache' = LRUGetCache(cache, key)
    /\ lruResult' = LRUGetResult(cache, key)
    /\ lruCall' = [op |-> "get", key |-> key, value |-> undefined]
    /\ recency' = IF MapHas(cache, key) THEN Touch(recency, key) ELSE recency
    /\ insertRun' = [insertRun EXCEPT !.ok = FALSE]

\* A client calls thumbnailCache.set(key, value)
LRUSet(key, value) ==
    /\ cache' = LRUSetCache(cache, key, value)
    /\ lruResult' = undefined
    /\ lruCall' = [op |-> "set", key |-> key, value |-> value]
    /\ recency' = Touch(recency, key)
    /\ insertRun' =
         IF insertRun.ok /\ key \notin Range(insertRun.keys)
                         /\ Len(insertRun.keys) <= maxSize
         THEN [insertRun EXCEPT !.keys = Append(@, key)]
         ELSE [insertRun EXCEPT !.ok = FALSE]

\* A client calls thumbnailCache.clear()
LRUClear ==
    /\ cache' = LRUClearCache(cache)
    /\ lruResult' = undefined
    /\ lruCall' = [op |-> "clear", key |-> 0, value |-> undefined]
    /\ recency' = recency
    /\ insertRun' = [ok |-> TRUE, keys |-> <<>>]


\* ------------------------------------------------------------------------
\* Thumbnail worker pool (src/main.js 108-259)
\* ------------------------------------------------------------------------

\* this.thumbnailCache.has(key), lines 169 and 212: thumbnailCache is an
\* LRUCache, and class LRUCache (lines 3-30) defines get, set and clear only,
\* so the call throws "this.thumbnailCache.has is not a function".
ThumbnailCacheHas(c, key) == "TypeError"

\* getVideoThumbnailWorker, lines 168-171: how the call ends at the lookup.
\* "miss" stands for falling through to line 173.
LookupOutcome(c, path) ==
    LET h == ThumbnailCacheHas(c, path)
    IN  IF h = "TypeError" THEN "TypeError"
        ELSE IF h = "true" THEN LRUGetResult(c, path)
        ELSE "miss"

\* getVideoThumbnailFallback, lines 211-214: an async function, so the throw
\* of line 212 makes the promise it returns reject. "capture" stands for
\* going on to the main-thread capture of lines 216-258.
FallbackOutcome(c, path) ==
    LET h == ThumbnailCacheHas(c, path)
    IN  IF h = "TypeError" THEN "TypeError"
        ELSE IF h = "true" THEN LRUGetResult(c, path)
        ELSE "capture"

\* resolve(x) on the request's promise: only the first call settles it
Resolve(outcome, x) == IF outcome = "pending" THEN x ELSE outcome

NoRequest ==
    [kind |-> "unused", path |-> 0, slot |-> 0, id |-> <<>>,
     listener |-> FALSE, msg |-> "none", responded |-> FALSE,
     timedOut |-> FALSE, outcome |-> "pending",
     idleMarks |-> 0, fallbackCalls |-> 0]

NoLookup == [path |-> 0, cached |-> FALSE, outcome |-> "none"]

InitPool ==
    /\ poolInit = FALSE
    /\ workerPool = <<>>
    /\ now = 0
    /\ nextReq = 1
    /\ reqs = [n \in 1 .. MaxRequests |-> NoRequest]
    /\ watchdogs = <<>>
    /\ lastLookup = NoLookup

\* initWorkerPool, lines 108-118; createThumbnailWorker returns null when the
\* host has no Worker (line 121), and the pool then stays empty.
InitWorkerPool(supported) ==
    /\ ~poolInit
    /\ poolInit' = TRUE
    /\ workerPool' = IF supported THEN [i \in 1 .. maxWorkers |-> FALSE] ELSE <<>>
    /\ UNCHANGED <<now, nextReq, reqs, watchdogs, lastLookup>>
    /\ UNCHANGED lruVars
    /\ UNCHANGED <<loadVars, renderVars, lbVars, viewVars, zoomVars>>

\* Time passes
Tick ==
    /\ now < MaxClock
    /\ now' = now + 1
    /\ UNCHANGED <<poolInit, workerPool, nextReq, reqs, watchdogs, lastLookup>>
    /\ UNCHANGED lruVars
    /\ UNCHANGED <<loadVars, renderVars, lbVars, viewVars, zoomVars>>

\* getVideoThumbnailWorker(file, resourcePath) as shipped, lines 168-171
GetVideoThumbnailWorker(path) ==
    /\ poolInit
    /\ lastLookup' = [path |-> path, cached |-> MapHas(cache, path),
                      outcome |-> LookupOutcome(cache, path)]
    /\ IF ThumbnailCacheHas(cache, path) = "true"
       THEN LRUGet(path)
       ELSE UNCHANGED lruVars
    /\ UNCHANGED <<poolInit, workerPool, now, nextReq, reqs, watchdogs>>
    /\ UNCHANGED <<loadVars, renderVars, lbVars, viewVars, zoomVars>>

\* The slot find() returns: the first that is not busy (line 173), 0 if none
FirstIdle(pool) ==
    IF \E i \in DOMAIN pool : ~pool[i]
    THEN CHOOSE i \in DOMAIN pool :
            ~pool[i] /\ \A j \in DOMAIN pool : ~pool[j] => i <= j
    ELSE 0

\* getVideoThumbnailWorker past the lookup, lines 173-207, for a path the
\* cache does not hold: no idle slot sends the request to the fallback;
\* otherwise the slot is claimed, the listener attached, the message posted
\* and the 5000 ms timer set.
DispatchState(path) ==
    /\ poolInit
    /\ nextReq <= MaxRequests
    /\ ~MapHas(cache, path)
    /\ LET slot == FirstIdle(workerPool)
       IN  IF slot = 0
           THEN /\ reqs' = [reqs EXCEPT ![nextReq] =
                        [NoRequest EXCEPT !.kind = "fallback", !.path = path,
                                          !.outcome = FallbackOutcome(cache, path),
                                          !.fallbackCalls = 1]]
                /\ UNCHANGED <<workerPool, watchdogs>>
           ELSE /\ workerPool' = [workerPool EXCEPT ![slot] = TRUE]
                /\ reqs' = [reqs EXCEPT ![nextReq] =
                        [NoRequest EXCEPT !.kind = "dispatched", !.path = path,
                                          !.slot = slot, !.id = <<path, now>>,
                                          !.listener = TRUE, !.msg = "posted"]]
                /\ watchdogs' = Append(watchdogs, nextReq)
    /\ nextReq' = nextReq + 1
    /\ UNCHANGED <<poolInit, now, lastLookup>>

\* A thumbnail request enters that code
Dispatch(path) ==
    /\ DispatchState(path)
    /\ UNCHANGED lruVars
    /\ UNCHANGED <<loadVars, renderVars, lbVars, viewVars, zoomVars>>

\* The listeners a message with this id on this slot's worker reaches: those
\* still attached to that worker whose id is equal (line 183)
Handlers(rs, slot, id) ==
    {m \in DOMAIN rs : rs[m].listener /\ rs[m].slot = slot /\ rs[m].id = id}

\* The worker answers the message of request n with a thumbnail or an error
\* (lines 152, 154); every matching messageHandler runs (lines 182-194).
WorkerResponse(n, kind) ==
    /\ reqs[n].msg = "posted"
    /\ LET slot == reqs[n].slot
           hs == Handlers(reqs, slot, reqs[n].id)
           path == reqs[n].path
       IN  /\ reqs' = [m \in DOMAIN reqs |->
                  LET r == IF m = n THEN [reqs[m] EXCEPT !.msg = "answered"]
                           ELSE reqs[m]
                  IN  IF m \in hs
                      THEN [r EXCEPT
                              !.listener = FALSE,
                              !.responded = TRUE,
                              !.idleMarks = @ + 1,
                              !.fallbackCalls =
                                  IF kind = "thumbnail" THEN @ ELSE @ + 1,
                              !.outcome =
                                  IF kind = "thumbnail" THEN Resolve(@, "w")
                                  ELSE Resolve(@, FallbackOutcome(cache, path))]
                      ELSE r]
           /\ workerPool' = IF hs # {} THEN [workerPool EXCEPT ![slot] = FALSE]
                            ELSE workerPool
           /\ IF hs # {} /\ kind = "thumbnail"
              THEN LRUSet(path, "w")
              ELSE UNCHANGED lruVars
    /\ UNCHANGED <<poolInit, now, nextReq, watchdogs, lastLookup>>
    /\ UNCHANGED <<loadVars, renderVars, lbVars, viewVars, zoomVars>>

\* The 5000 ms timer of the oldest request fires, lines 203-207. Nothing
\* clears the timer, so it fires for every dispatched request.
WatchdogTimeout ==
    /\ watchdogs # <<>>
    /\ LET n == Head(watchdogs)
           slot == reqs[n].slot
       IN  /\ reqs' = [reqs EXCEPT ![n] =
                  [@ EXCEPT !.listener = FALSE,
                            !.timedOut = TRUE,
                            !.idleMarks = @ + 1,
                            !.fallbackCalls = @ + 1,
                            !.outcome = Resolve(@, FallbackOutcome(cache, reqs[n].path))]]
           /\ workerPool' = [workerPool EXCEPT ![slot] = FALSE]
    /\ watchdogs' = Tail(watchdogs)
    /\ UNCHANGED <<poolInit, now, nextReq, lastLookup>>
    /\ UNCHANGED lruVars
    /\ UNCHANGED <<loadVars, renderVars, lbVars, viewVars, zoomVars>>


\* ------------------------------------------------------------------------
\* Media item loader (src/main.js 401-442, 612-625) and the start of
\* createGallery (261-272)
\* ------------------------------------------------------------------------

\* The extension of each file of the vault: filename.split('.').pop().toLowerCase()
Ext(path) ==
    CASE path % 3 = 1 -> "jpg"
      [] path % 3 = 2 -> "mp4"
      [] OTHER -> "mp3"

isImage(ext) ==
    ext \in {"jpg", "jpeg", "png", "gif", "bmp", "svg", "webp", "tiff", "tif",
             "avif", "heic", "heif", "ico"}

isVideo(ext) ==
    ext \in {"mp4", "webm", "ogv", "mov", "avi", "mkv", "flv", "wmv", "3gp",
             "m4v", "mpg", "mpeg", "m2v", "asf"}

isAudio(ext) ==
    ext \in {"mp3", "wav", "flac", "ogg", "aac", "m4a", "wma", "opus", "aiff", "au"}

NoLoad == [pc |-> "idle", path |-> 0]

InitLoad ==
    /\ pendingRequests = {}
    /\ loads = [l \in 1 .. MaxLoads |-> NoLoad]

\* this.pendingRequests.set(requestKey, true), line 421
PendingSet(pending, path) == pending \cup {path}

\* finally { this.pendingRequests.delete(requestKey) }, lines 439-441: runs
\* whether the try block completed or the catch block handled an error
PendingLeakOnError(pending, path, failed) ==
    IF failed THEN pending ELSE pending \ {path}

PendingDelete(pending, path, failed) == pending \ {path}

\* loadMediaElement from its call to its first await or its return, lines
\* 401-435. lazy: called by the observer with the cell only, the file is
\* looked up again and exists tells whether the vault still has it.
\* resourceThrows: getResourcePath (line 427) throws.
LoadMediaElement(l, path, lazy, exists, resourceThrows) ==
    /\ loads[l].pc = "idle"
    /\ IF lazy /\ ~exists
       THEN \* line 414: no file
            /\ loads' = [loads EXCEPT ![l] = [pc |-> "nofile", path |-> path]]
            /\ UNCHANGED pendingRequests
       ELSE IF path \in pendingRequests
       THEN \* lines 417-419: already being loaded
            /\ loads' = [loads EXCEPT ![l] = [pc |-> "noop", path |-> path]]
            /\ UNCHANGED pendingRequests
       ELSE IF resourceThrows
       THEN \* lines 421, 427, 436-441: registered, caught, released
            /\ loads' = [loads EXCEPT ![l] = [pc |-> "error", path |-> path]]
            /\ pendingRequests' =
                 PendingDelete(PendingSet(pendingRequests, path), path, TRUE)
       ELSE IF isImage(Ext(path)) \/ isVideo(Ext(path))
       THEN \* lines 429-432: suspended at the await
            /\ loads' = [loads EXCEPT ![l] = [pc |-> "loading", path |-> path]]
            /\ pendingRequests' = PendingSet(pendingRequests, path)
       ELSE \* lines 433-435, 439-441: the audio card is built without await
            /\ loads' = [loads EXCEPT ![l] = [pc |-> "done", path |-> path]]
            /\ pendingRequests' =
                 PendingDelete(PendingSet(pendingRequests, path), path, FALSE)
    /\ UNCHANGED <<lruVars, poolVars, renderVars, lbVars, viewVars, zoomVars>>

\* loadMediaElement after its await, lines 436-441: the awaited element
\* loader returned or threw
LoadMediaElementExit(l, failed) ==
    /\ loads[l].pc = "loading"
    /\ loads' = [loads EXCEPT ![l].pc = IF failed THEN "error" ELSE "done"]
    /\ pendingRequests' = PendingDelete(pendingRequests, loads[l].path, failed)
    /\ UNCHANGED <<lruVars, poolVars, renderVars, lbVars, viewVars, zoomVars>>

\* createGallery up to its first await, lines 261-272: both process-wide
\* collections are cleared
CreateGallery ==
    /\ LRUClear
    /\ pendingRequests' = {}
    /\ UNCHANGED loads
    /\ UNCHANGED <<poolVars, renderVars, lbVars, viewVars, zoomVars>>


\* ------------------------------------------------------------------------
\* Lightbox (src/main.js 998-1096, 1246-1379)
\* ------------------------------------------------------------------------
Min(a, b) == IF a <= b THEN a ELSE b

Max(a, b) == IF a >= b THEN a ELSE b

\* JavaScript's a % b for b > 0: the remainder has the sign of a
JsRem(a, b) == IF a >= 0 THEN a % b ELSE 0 - ((0 - a) % b)

\* navigate with random mode off, line 1375
NavigateNoWrapFix(index, direction, length) == JsRem(index + direction, length)

NavigateIndex(index, direction, length) ==
    JsRem(index + direction + length, length)

\* getRandomIndex, lines 1363-1369: the values the loop can end with
RandomIndexAny(index, length) == 0 .. (length - 1)

RandomIndexChoices(index, length) ==
    {newIndex \in 0 .. (length - 1) : ~(newIndex = index /\ length > 1)}

\* sortFiles with sort order name-asc: the files of a set in ascending order
RECURSIVE SortedSeq(_)
SortedSeq(S) ==
    IF S = {}
    THEN <<>>
    ELSE LET m == CHOOSE x \in S : \A y \in S : x <= y
         IN  <<m>> \o SortedSeq(S \ {m})

\* lines 1207-1209 and 1042-1044: the indices a thumbnail is built for
ThumbRange(length, index) ==
    LET maxVisible == Min(length, maxVisibleThumbs)
        startThumb == Max(0, index - (maxVisible \div 2))
        endThumb == Min(length, startThumb + maxVisible)
    IN  startThumb .. (endThumb - 1)

\* deleteCurrentFile, line 1002: the answer of confirm() decides
AlwaysConfirmed(answer) == TRUE

Confirmed(answer) == answer

\* deleteCurrentFile, line 1015: the index after a delete that leaves files
DeleteIndexKeep(index, newLength) == index

DeleteIndex(index, newLength) == Min(index, newLength - 1)

\* closeLightbox, line 1313: whether the close sets the refresh timer
CloseSchedulesNever(galleryContainer, onFileDeleted) == FALSE

CloseSchedules(galleryContainer, onFileDeleted) ==
    galleryContainer /\ onFileDeleted

\* updateMedia, line 1441: the pan offset set by a pointer at the normalized
\* position n of the container while the zoom is zoom fifths, in tenths of
\* the displayed size (the damping factor 1/sqrt(zoomLevel), which is
\* positive, is left out)
PanOffset(n, zoom) == 0 - (n * (zoom - ZoomUnit))

\* updateMedia, line 1413: the zoom after a right click
ZoomOutUnclamped(zoom) == zoom - ZoomUnit

ZoomOut(zoom) == Max(MinZoom * ZoomUnit, zoom - ZoomUnit)

\* updateMedia, line 1407: the zoom after a left click
ZoomIn(zoom) == Min(zoom + ZoomUnit, MaxZoom * ZoomUnit)

\* updateMedia, lines 1425-1426: the zoom after a wheel step
WheelZoom(zoom, deltaY) ==
    LET delta == IF deltaY < 0 THEN 1 ELSE 0 - 1
    IN  Max(MinZoom * ZoomUnit, Min(MaxZoom * ZoomUnit, zoom + delta))

NoLbCall == [op |-> "none", direction |-> 0]

NavLogBroken == <<0>>

\* Array identities: state.mediaFiles is the array of the render pass
\* (eager mode), the array a lazy cell built at load, or an array no cell of
\* the current gallery holds any more
GalleryArray == 0

OrphanArray == 0 - 1

InitLightbox ==
    /\ lbOpen = FALSE
    /\ mediaFiles = <<>>
    /\ currentIndex = 0
    /\ randomMode = FALSE
    /\ lbCall = NoLbCall
    /\ openedAt = 0
    /\ navLog = <<>>

InitViewer ==
    /\ slideshowActive = FALSE
    /\ timerRunning = FALSE
    /\ intervalDisabled = FALSE
    /\ keyHandler = FALSE
    /\ wheelHandler = FALSE
    /\ thumbs = {}
    /\ zombies = <<>>
    /\ opens = 0
    /\ filesRef = OrphanArray
    /\ lbContainer = "none"
    /\ deletedInSession = FALSE
    /\ refreshTimers = <<>>
    /\ vault = 1 .. NumVault
    /\ galleryFiles = <<>>
    /\ renderedFiles = <<>>
    /\ lazyMode = FALSE
    /\ cellFiles = <<>>
    /\ galleryRendered = FALSE
    /\ zoomShown = FALSE
    /\ zoomLevel = MinZoom * ZoomUnit
    /\ panX = 0
    /\ panY = 0
    /\ activeThumbs = {}

\* updateMedia, lines 1399-1401: the closure variables of a rendered image
ZoomReset ==
    /\ zoomLevel' = MinZoom * ZoomUnit
    /\ panX' = 0
    /\ panY' = 0

\* updateMedia, lines 1509-1518: of the thumbnails in the document, the one
\* whose dataset.index is currentIndex gets the class 'active' and all
\* others lose it
ActiveThumbs(strip, index) == {i \in strip : i = index}

\* deleteCurrentFile, lines 1016-1017: the thumbnails updateMedia has
\* highlighted that are still in the document once updateThumbnails has
\* emptied the strip (line 1040) and built it again
KeptThumbs == {}

\* updateMedia(state, ...), lines 1381-1402 and 1509-1518, while the media
\* container and the strip strip of thumbnails are in
\* the document: the file at index of files is rendered, an image gets the
\* zoom handlers, the thumbnail of index is highlighted
UpdateMediaState(files, index, strip) ==
    /\ zoomShown' = (/\ 0 <= index
                     /\ index < Len(files)
                     /\ isImage(Ext(files[index + 1])))
    /\ ZoomReset
    /\ activeThumbs' = ActiveThumbs(strip, index)

\* The media container leaves the document with the overlay
MediaGone ==
    /\ zoomShown' = FALSE
    /\ ZoomReset
    /\ activeThumbs' = {}

\* What is left of the instance on display when its overlay is removed
\* without the cleanup event (line 1085)
Leftover ==
    [keyHandler |-> keyHandler, timerRunning |-> timerRunning,
     slideshowActive |-> slideshowActive, container |-> lbContainer,
     closed |-> FALSE]

\* openMediaLightbox(app, mediaFiles, startIndex, onFileDeleted,
\* galleryContainer), lines 1083-1292: an existing overlay is removed, a new
\* state object is made; mediaFiles[startIndex].name at line 1147 throws for
\* an index outside the list, before the overlay is appended and the
\* handlers are attached
OpenMediaLightbox(files, startIndex, ref, container) ==
    /\ opens' = opens + 1
    /\ zombies' = IF lbOpen THEN Append(zombies, Leftover) ELSE zombies
    /\ mediaFiles' = files
    /\ currentIndex' = startIndex
    /\ randomMode' = FALSE
    /\ slideshowActive' = FALSE
    /\ timerRunning' = FALSE
    /\ intervalDisabled' = FALSE
    /\ filesRef' = ref
    /\ lbContainer' = container
    /\ deletedInSession' = FALSE
    /\ IF startIndex < Len(files)
       THEN /\ lbOpen' = TRUE
            /\ keyHandler' = TRUE
            /\ wheelHandler' = TRUE
            /\ thumbs' = ThumbRange(Len(files), startIndex)
            /\ UpdateMediaState(files, startIndex, thumbs')
       ELSE /\ lbOpen' = FALSE
            /\ keyHandler' = FALSE
            /\ wheelHandler' = FALSE
            /\ thumbs' = {}
            /\ MediaGone
    /\ lbCall' = [op |-> "open", direction |-> 0]
    /\ openedAt' = startIndex
    /\ navLog' = <<>>
    /\ UNCHANGED refreshTimers
    /\ UNCHANGED galleryVars
    /\ UNCHANGED <<lruVars, poolVars, loadVars, renderVars>>

\* openMediaLightbox called on the list 1..length
OpenDirect(length, startIndex) ==
    OpenMediaLightbox([i \in 1 .. length |-> i], startIndex, OrphanArray, "none")

\* The click handler of a loaded image cell, lines 454-461
CellClick(c) ==
    /\ c \in DOMAIN cellFiles
    /\ cellFiles[c].loaded
    /\ isImage(Ext(renderedFiles[c]))
    /\ OpenMediaLightbox(IF lazyMode THEN cellFiles[c].own ELSE galleryFiles,
                         c - 1,
                         IF lazyMode THEN c ELSE GalleryArray,
                         "attached")

\* toggleRandom, lines 1348-1351
ToggleRandom ==
    /\ lbOpen
    /\ randomMode' = ~randomMode
    /\ lbCall' = [op |-> "toggleRandom", direction |-> 0]
    /\ UNCHANGED <<lbOpen, mediaFiles, currentIndex, openedAt, navLog>>
    /\ UNCHANGED <<viewVars, zoomVars>>
    /\ UNCHANGED <<lruVars, poolVars, loadVars, renderVars>>

\* navigate(state, direction), lines 1371-1379, on the state object of the
\* instance on display
NavigateState(direction) ==
    /\ IF randomMode
       THEN \E newIndex \in RandomIndexChoices(currentIndex, Len(mediaFiles)) :
               currentIndex' = newIndex
       ELSE currentIndex' = NavigateIndex(currentIndex, direction, Len(mediaFiles))
    /\ UpdateMediaState(mediaFiles, currentIndex', thumbs)
    /\ lbCall' = [op |-> "navigate", direction |-> direction]

\* navigate called on a lightbox opened by OpenDirect, with the history of
\* the directions kept
Navigate(direction) ==
    /\ lbOpen
    /\ NavigateState(direction)
    /\ navLog' = IF ~randomMode /\ navLog # NavLogBroken /\ Len(navLog) < 3
                 THEN Append(navLog, direction)
                 ELSE NavLogBroken
    /\ UNCHANGED <<lbOpen, mediaFiles, randomMode, openedAt>>
    /\ UNCHANGED viewVars
    /\ UNCHANGED <<lruVars, poolVars, loadVars, renderVars>>

\* The previous and next buttons (lines 1190 and 1197) and the wheel handler
\* over the main area (lines 1272-1280)
NavButton(direction) ==
    /\ lbOpen
    /\ NavigateState(direction)
    /\ navLog' = NavLogBroken
    /\ UNCHANGED <<lbOpen, mediaFiles, randomMode, openedAt>>
    /\ UNCHANGED viewVars
    /\ UNCHANGED <<lruVars, poolVars, loadVars, renderVars>>

\* The interval set by toggleSlideshow fires, lines 1335-1337
SlideshowTick ==
    /\ timerRunning
    /\ NavigateState(1)
    /\ navLog' = NavLogBroken
    /\ UNCHANGED <<lbOpen, mediaFiles, randomMode, openedAt>>
    /\ UNCHANGED viewVars
    /\ UNCHANGED <<lruVars, poolVars, loadVars, renderVars>>

\* The click handler of a thumbnail, lines 1236-1241 and 1072-1077
ThumbClick(i) ==
    /\ lbOpen
    /\ i \in thumbs
    /\ currentIndex' = i
    /\ randomMode' = FALSE
    /\ navLog' = NavLogBroken
    /\ UpdateMediaState(mediaFiles, i, thumbs)
    /\ lbCall' = [op |-> "thumb", direction |-> 0]
    /\ UNCHANGED <<lbOpen, mediaFiles, openedAt>>
    /\ UNCHANGED viewVars
    /\ UNCHANGED <<lruVars, poolVars, loadVars, renderVars>>

SlideshowStateKeepsTimer ==
    IF slideshowActive
    THEN /\ timerRunning' = timerRunning
         /\ slideshowActive' = FALSE
         /\ intervalDisabled' = FALSE
    ELSE /\ slideshowActive' = TRUE
         /\ intervalDisabled' = TRUE
         /\ timerRunning' = TRUE

\* toggleSlideshow(state, slideshowBtn, intervalInput), lines 1320-1339, on
\* the instance on display
SlideshowState ==
    IF slideshowActive
    THEN /\ timerRunning' = FALSE
         /\ slideshowActive' = FALSE
         /\ intervalDisabled' = FALSE
    ELSE /\ slideshowActive' = TRUE
         /\ intervalDisabled' = TRUE
         /\ timerRunning' = TRUE

\* The characters typed into the interval input that are followed
InputChars == {"-", "0", "1", "3", "x"}

\* Longest text of the interval input.
MaxInput == 2

\* intervalInput.value: texts of at most MaxInput characters
IntervalInputs == UNION {[1 .. n -> InputChars] : n \in 0 .. MaxInput}

\* intervalInput.value = '3', line 1118
DefaultInput == <<"3">>

isDigit(ch) == ch \in {"0", "1", "2", "3", "4", "5", "6", "7", "8", "9"}

DigitValue(ch) ==
    CASE ch = "0" -> 0 [] ch = "1" -> 1 [] ch = "2" -> 2 [] ch = "3" -> 3
      [] ch = "4" -> 4 [] ch = "5" -> 5 [] ch = "6" -> 6 [] ch = "7" -> 7
      [] ch = "8" -> 8 [] OTHER -> 9

\* The value of the longest prefix of digits of text, read after acc
RECURSIVE Digits(_, _)
Digits(text, acc) ==
    IF text = <<>> \/ ~isDigit(Head(text)) THEN acc
    ELSE Digits(Tail(text), acc * 10 + DigitValue(Head(text)))

\* parseInt(text): an optional sign and the digits that follow it; NaN
\* when no digit follows
parseInt(text) ==
    LET negative == text # <<>> /\ Head(text) = "-"
        rest == IF negative THEN Tail(text) ELSE text
    IN  IF rest = <<>> \/ ~isDigit(Head(rest))
        THEN [nan |-> TRUE, n |-> 0]
        ELSE [nan |-> FALSE,
              n |-> IF negative THEN 0 - Digits(rest, 0) ELSE Digits(rest, 0)]

\* parseInt(intervalInput.value) || 3, line 1329: NaN and 0 are falsy
Interval(text) ==
    LET parsed == parseInt(text)
    IN  IF parsed.nan \/ parsed.n = 0 THEN 3 ELSE parsed.n

\* The period in ms of setInterval(callback, delay): a delay below 0 is
\* taken as 0
TimerPeriod(delay) == Max(delay, 0)

\* The period of the timer of line 1335 for the text of the input
SlideshowPeriod(text) == TimerPeriod(Interval(text) * 1000)

\* toggleSlideshow(state, slideshowBtn, intervalInput) with value the text of
\* the interval input
ToggleSlideshowWith(value) ==
    /\ lbOpen
    /\ SlideshowState
    /\ lbCall' = [op |-> "toggleSlideshow", direction |-> 0, value |-> value,
                  period |-> IF slideshowActive THEN 0
                             ELSE SlideshowPeriod(value)]
    /\ UNCHANGED <<lbOpen, mediaFiles, currentIndex, randomMode, openedAt, navLog>>
    /\ UNCHANGED <<handlerVars, thumbs, zombies, opens, filesRef, lbContainer,
                   deletedInSession, refreshTimers>>
    /\ UNCHANGED <<galleryVars, zoomVars>>
    /\ UNCHANGED <<lruVars, poolVars, loadVars, renderVars>>

\* The slideshow button with the input as openMediaLightbox made it
ToggleSlideshow == ToggleSlideshowWith(DefaultInput)

\* closeLightbox(state), lines 1300-1309, while the overlay of the instance
\* is in the document: the interval is cleared, the cleanup listener
\* (lines 1285-1291) detaches the handlers, the overlay is removed
CloseState ==
    /\ timerRunning' = FALSE
    /\ keyHandler' = FALSE
    /\ wheelHandler' = FALSE
    /\ thumbs' = {}
    /\ lbOpen' = FALSE
    /\ MediaGone

\* closeLightbox, lines 1311-1317: the timers after the close of an instance
\* whose galleryContainer is container
CloseTimers(timers, container) ==
    IF CloseSchedules(container # "none", TRUE)
    THEN Append(timers, container)
    ELSE timers

\* The close button and the close box
CloseLightbox ==
    /\ lbOpen
    /\ Len(refreshTimers) < MaxTimers
    /\ CloseState
    /\ refreshTimers' = CloseTimers(refreshTimers, lbContainer)
    /\ lbCall' = [op |-> "close", direction |-> 0]
    /\ UNCHANGED <<mediaFiles, currentIndex, randomMode, openedAt, navLog>>
    /\ UNCHANGED <<slideshowActive, intervalDisabled, zombies, opens, filesRef,
                   lbContainer, deletedInSession>>
    /\ UNCHANGED galleryVars
    /\ UNCHANGED <<lruVars, poolVars, loadVars, renderVars>>

Keys4 == {"ArrowLeft", "ArrowRight", "Escape", " "}

\* The keyHandler (lines 1260-1268) of an instance whose overlay was removed
\* by a later openMediaLightbox, run on its own state object
LeftoverKey(z, key) ==
    CASE key \in {"ArrowLeft", "ArrowRight"} -> z
      [] key = "Escape" ->
            [z EXCEPT !.timerRunning = FALSE, !.closed = TRUE]
      [] OTHER ->
            [z EXCEPT !.slideshowActive = ~z.slideshowActive,
                      !.timerRunning = ~z.slideshowActive]

\* The refresh timers set by the closeLightbox calls of the leftover
\* keyHandlers, in the order the handlers were registered
RECURSIVE LeftoverCloseTimers(_, _)
LeftoverCloseTimers(timers, zs) ==
    IF zs = <<>>
    THEN timers
    ELSE LeftoverCloseTimers(
             IF Head(zs).keyHandler THEN CloseTimers(timers, Head(zs).container)
                                    ELSE timers,
             Tail(zs))

\* A keydown event on the document: every attached keyHandler runs, in the
\* order of registration. A handler detached by an earlier one during the
\* dispatch does not run.
KeyDown(key) ==
    LET leftoverHandles == \E k \in DOMAIN zombies : zombies[k].keyHandler
    IN
    /\ keyHandler \/ leftoverHandles
    /\ key = "Escape" => Len(refreshTimers) + Len(zombies) < MaxTimers
    /\ zombies' = [k \in DOMAIN zombies |->
                      IF zombies[k].keyHandler
                      THEN LeftoverKey(zombies[k], key)
                      ELSE zombies[k]]
    /\ CASE key \in {"ArrowLeft", "ArrowRight"} ->
              /\ IF keyHandler
                 THEN /\ NavigateState(IF key = "ArrowLeft" THEN 0 - 1 ELSE 1)
                      /\ navLog' = NavLogBroken
                 ELSE /\ lbCall' = [op |-> "keydown", direction |-> 0]
                      /\ UNCHANGED <<currentIndex, navLog, zoomVars>>
              /\ UNCHANGED <<lbOpen, timerVars, handlerVars, thumbs, refreshTimers>>
         [] key = "Escape" ->
              /\ UNCHANGED <<currentIndex, navLog, slideshowActive, intervalDisabled>>
              /\ IF leftoverHandles /\ lbOpen
                 THEN /\ CloseState
                      /\ refreshTimers' = LeftoverCloseTimers(refreshTimers, zombies)
                      /\ lbCall' = [op |-> "removed", direction |-> 0]
                 ELSE IF keyHandler
                 THEN /\ CloseState
                      /\ refreshTimers' = CloseTimers(refreshTimers, lbContainer)
                      /\ lbCall' = [op |-> "close", direction |-> 0]
                 ELSE /\ refreshTimers' = LeftoverCloseTimers(refreshTimers, zombies)
                      /\ lbCall' = [op |-> "keydown", direction |-> 0]
                      /\ UNCHANGED <<lbOpen, timerRunning, handlerVars, thumbs,
                                     zoomVars>>
         [] OTHER ->
              /\ IF keyHandler
                 THEN /\ SlideshowState
                      /\ lbCall' = [op |-> "toggleSlideshow", direction |-> 0]
                 ELSE /\ lbCall' = [op |-> "keydown", direction |-> 0]
                      /\ UNCHANGED timerVars
              /\ UNCHANGED <<lbOpen, currentIndex, navLog, handlerVars, thumbs,
                             refreshTimers, zoomVars>>
    /\ UNCHANGED <<mediaFiles, randomMode, openedAt>>
    /\ UNCHANGED <<opens, filesRef, lbContainer, deletedInSession>>
    /\ UNCHANGED galleryVars
    /\ UNCHANGED <<lruVars, poolVars, loadVars, renderVars>>

\* The interval of an instance whose overlay was removed by a later
\* openMediaLightbox fires: navigate runs on its state object, and updateMedia
\* renders that object's file into the media container now in the document
\* (an image or not: the list of the earlier instance is not followed)
LeftoverTick(k) ==
    /\ k \in DOMAIN zombies
    /\ zombies[k].timerRunning
    /\ UNCHANGED zombies
    /\ IF lbOpen
       THEN /\ \E shown \in BOOLEAN : zoomShown' = shown
            /\ ZoomReset
            /\ \E index \in thumbs \cup {0 - 1} :
                  activeThumbs' = ActiveThumbs(thumbs, index)
       ELSE UNCHANGED zoomVars
    /\ lbCall' = [op |-> "leftoverTick", direction |-> 0]
    /\ UNCHANGED <<lbOpen, mediaFiles, currentIndex, randomMode, openedAt, navLog>>
    /\ UNCHANGED <<timerVars, handlerVars, thumbs, opens, filesRef, lbContainer,
                   deletedInSession, refreshTimers>>
    /\ UNCHANGED galleryVars
    /\ UNCHANGED <<lruVars, poolVars, loadVars, renderVars>>

\* deleteCurrentFile, lines 1021-1027: the timers after the delete
DeleteTimers(timers, container) ==
    IF container # "none" THEN Append(timers, container) ELSE timers

\* deleteCurrentFile(state), lines 998-1034 (the delete button). answer is
\* what confirm() returns; outcome is how vault.delete ends: "ok", "throws"
\* (an exception out of the call itself) or "rejects" (the promise it
\* returned is rejected later; the call is not awaited)
DeleteCurrentFile(answer, outcome) ==
    /\ lbOpen
    /\ Len(refreshTimers) + 2 <= MaxTimers
    /\ UNCHANGED <<randomMode, openedAt, slideshowActive, intervalDisabled,
                   zombies, opens, filesRef, lbContainer>>
    /\ UNCHANGED <<renderedFiles, lazyMode, galleryRendered>>
    /\ UNCHANGED <<lruVars, poolVars, loadVars, renderVars>>
    /\ IF currentIndex >= Len(mediaFiles) \/ ~Confirmed(answer)
       THEN /\ lbCall' = [op |-> "delete", direction |-> 0, answer |-> answer,
                          outcome |-> "none", requested |-> FALSE,
                          notice |-> "none", index |-> currentIndex]
            /\ UNCHANGED <<lbOpen, mediaFiles, currentIndex, navLog, timerRunning,
                           handlerVars, thumbs, deletedInSession, refreshTimers,
                           vault, galleryFiles, cellFiles, zoomVars>>
       ELSE
       LET file == mediaFiles[currentIndex + 1]
           rest == RemoveAt(mediaFiles, currentIndex + 1)
       IN
       IF outcome = "throws"
       THEN /\ lbCall' = [op |-> "delete", direction |-> 0, answer |-> answer,
                          outcome |-> outcome, requested |-> TRUE,
                          notice |-> "error", index |-> currentIndex]
            /\ UNCHANGED <<lbOpen, mediaFiles, currentIndex, navLog, timerRunning,
                           handlerVars, thumbs, deletedInSession, refreshTimers,
                           vault, galleryFiles, cellFiles, zoomVars>>
       ELSE /\ lbCall' = [op |-> "delete", direction |-> 0, answer |-> answer,
                          outcome |-> outcome, requested |-> TRUE,
                          notice |-> IF rest = <<>> THEN "empty" ELSE "deleted",
                          index |-> currentIndex]
            /\ vault' = IF outcome = "ok" THEN vault \ {file} ELSE vault
            /\ mediaFiles' = rest
            /\ galleryFiles' = IF filesRef = GalleryArray THEN rest
                                                           ELSE galleryFiles
            /\ cellFiles' = IF filesRef \in DOMAIN cellFiles
                            THEN [cellFiles EXCEPT ![filesRef].own = rest]
                            ELSE cellFiles
            /\ deletedInSession' = TRUE
            /\ navLog' = NavLogBroken
            /\ IF rest = <<>>
               THEN /\ CloseState
                    /\ UNCHANGED currentIndex
                    /\ refreshTimers' =
                         DeleteTimers(CloseTimers(refreshTimers, lbContainer), lbContainer)
               ELSE /\ currentIndex' = DeleteIndex(currentIndex, Len(rest))
                    /\ thumbs' = ThumbRange(Len(rest), currentIndex')
                    /\ UpdateMediaState(rest, currentIndex', KeptThumbs)
                    /\ UNCHANGED <<lbOpen, timerRunning, handlerVars>>
                    /\ refreshTimers' = DeleteTimers(refreshTimers, lbContainer)

\* el.empty() (lines 262 and 550): a container that was attached is not
DetachNever(container) == container

Detach(container) == IF container = "attached" THEN "detached" ELSE container

\* createGallery and renderGallery, lines 261-350, from entry to the
\* rendered grid: the cache and the pending set are cleared, the files are
\* discovered and sorted, one cell is made per file. In eager mode every
\* cell is loaded with the array of the pass; in lazy mode a cell is loaded
\* when it is scrolled into view.
RenderState(lazy, timers) ==
    /\ LRUClear
    /\ pendingRequests' = {}
    /\ UNCHANGED loads
    /\ UNCHANGED <<poolVars, renderVars>>
    /\ galleryRendered' = TRUE
    /\ lbContainer' = Detach(lbContainer)
    /\ zombies' = [k \in DOMAIN zombies |->
                      [zombies[k] EXCEPT !.container = Detach(@)]]
    /\ refreshTimers' = [k \in DOMAIN timers |-> Detach(timers[k])]
    /\ galleryFiles' = SortedSeq(vault)
    /\ renderedFiles' = SortedSeq(vault)
    /\ lazyMode' = lazy
    /\ cellFiles' = [c \in 1 .. Cardinality(vault) |->
                        [loaded |-> ~lazy, own |-> <<>>]]
    /\ filesRef' = OrphanArray
    /\ UNCHANGED vault

\* The host renders the code block for the first time
HostRender(lazy) ==
    /\ ~galleryRendered
    /\ RenderState(lazy, refreshTimers)
    /\ lbCall' = [op |-> "render", direction |-> 0]
    /\ UNCHANGED <<lbOpen, mediaFiles, currentIndex, randomMode, openedAt, navLog>>
    /\ UNCHANGED <<timerVars, handlerVars, thumbs, opens, deletedInSession>>
    /\ UNCHANGED zoomVars

\* loadMediaElement for a lazy cell, lines 401-412, from entry to exit: the
\* file and the list are looked up again in the store. The list is kept for
\* an image cell, whose click handler captures it (lines 454-461).
CellLoaded(c) ==
    /\ lazyMode
    /\ c \in DOMAIN cellFiles
    /\ ~cellFiles[c].loaded
    /\ renderedFiles[c] \in vault
    /\ cellFiles' = [cellFiles EXCEPT
                        ![c] = [loaded |-> TRUE,
                                own |-> IF isImage(Ext(renderedFiles[c]))
                                        THEN SelectSeq(renderedFiles,
                                                       LAMBDA f : f \in vault)
                                        ELSE <<>>]]
    /\ lbCall' = [op |-> "load", direction |-> 0]
    /\ UNCHANGED <<lbOpen, mediaFiles, currentIndex, randomMode, openedAt, navLog>>
    /\ UNCHANGED <<timerVars, handlerVars, thumbs, zombies, opens, filesRef, lbContainer,
                   deletedInSession, refreshTimers>>
    /\ UNCHANGED <<vault, galleryFiles, renderedFiles, lazyMode, galleryRendered>>
    /\ UNCHANGED zoomVars
    /\ UNCHANGED <<lruVars, poolVars, loadVars, renderVars>>

\* A refresh timer fires: onFileDeleted runs refreshCurrentGallery, lines
\* 533-564, which re-creates the gallery if its container is still attached
\* (parentElement is null for a detached one)
RefreshFires ==
    /\ refreshTimers # <<>>
    /\ IF Head(refreshTimers) = "attached"
       THEN RenderState(lazyMode, Tail(refreshTimers))
       ELSE /\ refreshTimers' = Tail(refreshTimers)
            /\ UNCHANGED galleryVars
            /\ UNCHANGED <<filesRef, lbContainer, zombies>>
            /\ UNCHANGED <<lruVars, poolVars, loadVars, renderVars>>
    /\ lbCall' = [op |-> "refresh", direction |-> 0,
                  rendered |-> Head(refreshTimers) = "attached"]
    /\ UNCHANGED <<lbOpen, mediaFiles, currentIndex, randomMode, openedAt, navLog>>
    /\ UNCHANGED <<timerVars, handlerVars, thumbs, opens, deletedInSession>>
    /\ UNCHANGED zoomVars

\* The handlers updateMedia attaches to a rendered image, lines 1405-1471
ZoomFrame ==
    /\ lbCall' = [op |-> "zoom", direction |-> 0,
                  panned |-> (panX # 0 \/ panY # 0)]
    /\ UNCHANGED <<zoomShown, activeThumbs>>
    /\ UNCHANGED <<lbOpen, mediaFiles, currentIndex, randomMode, openedAt, navLog>>
    /\ UNCHANGED viewVars
    /\ UNCHANGED <<lruVars, poolVars, loadVars, renderVars>>

\* click, lines 1405-1409
ZoomClick ==
    /\ zoomShown
    /\ zoomLevel' = ZoomIn(zoomLevel)
    /\ UNCHANGED <<panX, panY>>
    /\ ZoomFrame

\* contextmenu, lines 1411-1419
ZoomContextMenu ==
    /\ zoomShown
    /\ zoomLevel' = ZoomOut(zoomLevel)
    /\ IF zoomLevel' = MinZoom * ZoomUnit
       THEN panX' = 0 /\ panY' = 0
       ELSE UNCHANGED <<panX, panY>>
    /\ ZoomFrame

\* wheel over the image, lines 1421-1436
ZoomWheel(deltaY) ==
    /\ zoomShown
    /\ LET newZoom == WheelZoom(zoomLevel, deltaY)
       IN  IF newZoom # zoomLevel
           THEN /\ zoomLevel' = newZoom
                /\ IF newZoom = MinZoom * ZoomUnit
                   THEN panX' = 0 /\ panY' = 0
                   ELSE UNCHANGED <<panX, panY>>
           ELSE UNCHANGED <<zoomLevel, panX, panY>>
    /\ ZoomFrame

\* mousemove, lines 1440-1470
ZoomMouseMove(nx, ny) ==
    /\ zoomShown
    /\ IF zoomLevel > MinZoom * ZoomUnit
       THEN /\ panX' = PanOffset(nx, zoomLevel)
            /\ panY' = PanOffset(ny, zoomLevel)
       ELSE UNCHANGED <<panX, panY>>
    /\ UNCHANGED zoomLevel
    /\ ZoomFrame

\* ------------------------------------------------------------------------
\* A render pass step by step (src/main.js 261-384), the observer-triggered
\* loads (386-412), the element loaders (444-531) and onunload (975-995)
\* ------------------------------------------------------------------------

\* The lists loadMediaFiles can return: files of the vault in the order they
\* were found
Discoveries ==
    UNION {{s \in [1 .. n -> Paths] :
               \A i, j \in 1 .. n : i # j => s[i] # s[j]} : n \in 0 .. NumPaths}

\* What loadMediaFiles can return when the paths of the config name a
\* folder more than once (lines 312-323 append the files of every path, so
\* a file can be in the list several times)
Listings == UNION {[1 .. n -> Paths] : n \in 0 .. NumPaths}

\* The orders shuffleArray (lines 648-654) can leave a list in
Shuffles(list) ==
    {[i \in DOMAIN list |-> list[p[i]]] :
        p \in {q \in [DOMAIN list -> DOMAIN list] : Range(q) = DOMAIN list}}

\* file.name, as its rank in localeCompare order
Name == [f \in Paths |-> f]

\* file.stat.mtime
Mtime == [f \in Paths |-> (f * 2) % (NumPaths + 1)]

SortOrders == {"name-asc", "date-asc", "date-desc", "random"}

\* Array.prototype.sort with the comparator a.key - b.key: stable, ascending
RECURSIVE Insert(_, _, _)
Insert(sorted, x, key) ==
    IF sorted = <<>> THEN <<x>>
    ELSE IF key[x] < key[Head(sorted)] THEN <<x>> \o sorted
    ELSE <<Head(sorted)>> \o Insert(Tail(sorted), x, key)

RECURSIVE StableSort(_, _)
StableSort(list, key) ==
    IF list = <<>> THEN <<>>
    ELSE Insert(StableSort(SubSeq(list, 1, Len(list) - 1), key),
                list[Len(list)], key)

\* sortFiles(files, sortOrder), lines 634-646; shuffled is what shuffleArray
\* returns for a copy of the list
sortFiles(list, sortOrder, shuffled) ==
    CASE sortOrder = "date-asc" -> StableSort(list, Mtime)
      [] sortOrder = "date-desc" -> StableSort(list, [f \in Paths |-> 0 - Mtime[f]])
      [] sortOrder = "random" -> shuffled
      [] OTHER -> StableSort(list, Name)

\* Array.prototype.slice(0, end)
Slice0(list, end) ==
    LET stop == IF end < 0 THEN Max(Len(list) + end, 0) ELSE Min(end, Len(list))
    IN  SubSeq(list, 1, stop)

\* The values of config.limit followed (parseInt(...) || 50, line 88, is
\* never 0)
Limits == 1 .. MaxLimit

Configs ==
    [displayType : {"full", "compact"}, limit : Limits,
     enableLazyLoad : BOOLEAN, batchSize : BatchSizes,
     sortOrder : SortOrders]

\* parseConfig of an empty code block, lines 63-72
DefaultConfig ==
    [displayType |-> "full", limit |-> 50, enableLazyLoad |-> TRUE,
     batchSize |-> 10, sortOrder |-> "date-desc"]

\* renderGallery, lines 344-346
FilesToDisplay(list, cfg) ==
    IF cfg.displayType = "compact" THEN Slice0(list, cfg.limit) ELSE list

\* renderGallery, lines 334-336: the text of the info bar
FileCountText(cfg, total) ==
    IF cfg.displayType = "compact"
    THEN [found |-> total, showingFirst |-> cfg.limit]
    ELSE [found |-> total]

NoInfoBar == [found |-> 0 - 1]

\* What the catch block of loadMediaElement leaves in the cell (lines
\* 436-438, showErrorState)
CellAfterThrowUnchanged(content) == content

CellAfterThrow(content) == "error"

VideoCellContentNoCatch(outcome) ==
    IF outcome \in Values THEN "thumb"
    ELSE IF outcome = "null" THEN "video"
    ELSE ""

\* loadVideoElement, lines 468-496: what the container shows once the
\* thumbnail promise is settled: the thumbnail image for a thumbnail, a
\* native video element for the absent result (line 480) and for a rejected
\* promise (line 489)
VideoCellContent(outcome) ==
    IF outcome \in Values THEN "thumb"
    ELSE IF outcome = "null" THEN "video"
    ELSE "video"

\* The callbacks passed to requestIdleCallback (lines 453, 501, 521) attach
\* the click handler to img: the image of loadImageElement; in
\* loadVideoElement and loadAudioElement no img is in scope and the callback
\* throws ReferenceError
IdleCallbackAttaches(ext) == isImage(ext)

NewItem(file, content) ==
    [file |-> file, content |-> content, index |-> 0, allFiles |-> <<>>,
     clickable |-> FALSE, req |-> 0]

InitRender ==
    /\ unloaded = FALSE
    /\ observed = {}
    /\ aborted = FALSE
    /\ passPc = "none"
    /\ config = DefaultConfig
    /\ sortedFiles = <<>>
    /\ filesToDisplay = <<>>
    /\ nextIndex = 0
    /\ items = <<>>
    /\ infoBar = NoInfoBar
    /\ nodes = {}

\* createGallery(el, config, ctx) from its call to the await of line 278:
\* el is emptied, both collections are cleared, the loading indicator is
\* shown and a new AbortController is made. The cells of an earlier pass are
\* not followed any further.
CreateGalleryBegin(cfg) ==
    /\ ~unloaded
    /\ passPc \in {"none", "done"}
    /\ LRUClear
    /\ pendingRequests' = {}
    /\ UNCHANGED loads
    /\ observed' = {}
    /\ aborted' = FALSE
    /\ passPc' = "discovery"
    /\ config' = cfg
    /\ sortedFiles' = <<>>
    /\ filesToDisplay' = <<>>
    /\ nextIndex' = 0
    /\ items' = <<>>
    /\ infoBar' = NoInfoBar
    /\ nodes' = {"loading"}
    /\ UNCHANGED unloaded
    /\ UNCHANGED <<poolVars, lbVars, viewVars, zoomVars>>

\* ctx.containerEl.onNodeRemoved is called (line 276): controller.abort()
AbortFires ==
    /\ passPc \in {"discovery", "batch", "load"}
    /\ ~aborted
    /\ aborted' = TRUE
    /\ UNCHANGED <<unloaded, observed, passPc, config, sortedFiles,
                   filesToDisplay, nextIndex, items, infoBar, nodes>>
    /\ UNCHANGED <<lruVars, poolVars, loadVars, lbVars, viewVars, zoomVars>>

\* createGallery after the await of line 278, lines 280-301, and
\* renderGallery up to its call of renderBatchItems, lines 328-349. found is
\* what loadMediaFiles returned, threw tells that it threw instead (nothing
\* in it throws an AbortError).
DiscoveryReturns(found, threw, shuffled) ==
    /\ passPc = "discovery"
    /\ IF threw
       THEN /\ nodes' = {"error"}
            /\ passPc' = "done"
            /\ UNCHANGED <<sortedFiles, filesToDisplay, infoBar>>
       ELSE IF found = <<>>
       THEN /\ nodes' = {"empty"}
            /\ passPc' = "done"
            /\ UNCHANGED <<sortedFiles, filesToDisplay, infoBar>>
       ELSE /\ sortedFiles' = sortFiles(found, config.sortOrder, shuffled)
            /\ nodes' = {"container"}
            /\ infoBar' = FileCountText(config, Len(sortedFiles'))
            /\ filesToDisplay' = FilesToDisplay(sortedFiles', config)
            /\ passPc' = IF filesToDisplay' = <<>> THEN "done" ELSE "batch"
    /\ UNCHANGED <<unloaded, observed, aborted, config, nextIndex, items>>
    /\ UNCHANGED <<lruVars, poolVars, loadVars, lbVars, viewVars, zoomVars>>

\* config.batchSize || 10, line 353
BatchSize(cfg) == IF cfg.batchSize = 0 THEN 10 ELSE cfg.batchSize

\* renderBatchItems with enableLazyLoad, lines 352-384, from the start of a
\* batch to the await of line 381 or the return: nothing is awaited inside
\* the loop, so a batch of placeholders is made in one piece
RenderBatchLazy ==
    /\ passPc = "batch"
    /\ config.enableLazyLoad
    /\ nextIndex > 0 - MaxRecursion
    /\ IF aborted
       THEN /\ passPc' = "done"
            /\ UNCHANGED <<items, observed, nextIndex>>
       ELSE LET endIndex == Min(nextIndex + BatchSize(config), Len(filesToDisplay))
                made == [k \in 1 .. (endIndex - nextIndex) |->
                            NewItem(filesToDisplay[nextIndex + k], "placeholder")]
            IN  /\ items' = items \o made
                /\ observed' = observed \cup ((nextIndex + 1) .. endIndex)
                /\ nextIndex' = endIndex
                /\ passPc' = IF endIndex < Len(filesToDisplay) THEN "batch"
                                                              ELSE "done"
    /\ UNCHANGED <<unloaded, aborted, config, sortedFiles, filesToDisplay,
                   infoBar, nodes>>
    /\ UNCHANGED <<lruVars, poolVars, loadVars, lbVars, viewVars, zoomVars>>

AfterItemStopsAtBatch(i) ==
    IF i + 1 < Len(filesToDisplay) /\ (i + 1) % BatchSize(config) # 0
    THEN "batch" ELSE "done"

\* Where renderBatchItems goes on after the cell of index i is dealt with
AfterItem(i) == IF i + 1 < Len(filesToDisplay) THEN "batch" ELSE "done"

\* renderBatchItems without enableLazyLoad, lines 356-377: one turn of the
\* loop, from the check of the signal to the await of loadMediaElement
\* (lines 401-435). resourceThrows: getResourcePath (line 427) throws.
RenderItemEager(resourceThrows) ==
    /\ passPc = "batch"
    /\ ~config.enableLazyLoad
    /\ nextIndex > 0 - MaxRecursion
    /\ IF aborted
       THEN /\ passPc' = "done"
            /\ UNCHANGED <<items, nextIndex, pendingRequests>>
       ELSE IF BatchSize(config) < 0
       THEN \* endIndex < startIndex: the loop makes no turn and line 382
            \* calls renderBatchItems with endIndex
            /\ nextIndex' = Min(nextIndex + BatchSize(config), Len(filesToDisplay))
            /\ passPc' = "batch"
            /\ UNCHANGED <<items, pendingRequests>>
       ELSE LET file == filesToDisplay[nextIndex + 1]
                item == [NewItem(file, "") EXCEPT
                            !.index = nextIndex, !.allFiles = filesToDisplay]
            IN  /\ nextIndex' = nextIndex + 1
                /\ IF file \in pendingRequests
                   THEN \* lines 417-419
                        /\ items' = Append(items, item)
                        /\ UNCHANGED pendingRequests
                        /\ passPc' = AfterItem(nextIndex)
                   ELSE IF resourceThrows
                   THEN \* lines 421, 427, 436-441
                        /\ items' = Append(items,
                               [item EXCEPT !.content = CellAfterThrow("")])
                        /\ pendingRequests' =
                             PendingDelete(PendingSet(pendingRequests, file), file, TRUE)
                        /\ passPc' = AfterItem(nextIndex)
                   ELSE IF isAudio(Ext(file))
                   THEN \* lines 433-435, 513-531, 439-441
                        /\ items' = Append(items,
                               [item EXCEPT !.content = "audio",
                                            !.clickable = IdleCallbackAttaches(Ext(file))])
                        /\ pendingRequests' =
                             PendingDelete(PendingSet(pendingRequests, file), file, FALSE)
                        /\ passPc' = AfterItem(nextIndex)
                   ELSE \* lines 429-432: suspended at the await
                        /\ items' = Append(items, [item EXCEPT !.content = "loading"])
                        /\ pendingRequests' = PendingSet(pendingRequests, file)
                        /\ passPc' = "load"
    /\ UNCHANGED loads
    /\ UNCHANGED <<unloaded, observed, aborted, config, sortedFiles,
                   filesToDisplay, infoBar, nodes>>
    /\ UNCHANGED <<lruVars, poolVars, lbVars, viewVars, zoomVars>>

\* The cell renderBatchItems is awaiting the load of
Awaited == Len(items)

\* The awaited load of an eager cell ends, lines 436-441, as shipped:
\* loadImageElement returned, or getVideoThumbnailWorker ended at the lookup
\* of line 169 and loadVideoElement went on from there; failed: the element
\* loader threw
ItemLoaded(failed) ==
    /\ passPc = "load"
    /\ items[Awaited].req = 0
    /\ LET file == items[Awaited].file
       IN  /\ items' = [items EXCEPT ![Awaited] =
                  IF failed
                  THEN [@ EXCEPT !.content = CellAfterThrow(@)]
                  ELSE [@ EXCEPT
                          !.content =
                              IF isImage(Ext(file)) THEN "img"
                              ELSE VideoCellContent(LookupOutcome(cache, file)),
                          !.clickable = IdleCallbackAttaches(Ext(file))]]
           /\ pendingRequests' = PendingDelete(pendingRequests, file, failed)
    /\ passPc' = AfterItem(nextIndex - 1)
    /\ UNCHANGED loads
    /\ UNCHANGED <<unloaded, observed, aborted, config, sortedFiles,
                   filesToDisplay, nextIndex, infoBar, nodes>>
    /\ UNCHANGED <<lruVars, poolVars, lbVars, viewVars, zoomVars>>

\* The awaited load of an eager video cell enters getVideoThumbnailWorker
\* behind the lookup of line 169 (see Dispatch)
ItemDispatch ==
    /\ passPc = "load"
    /\ items[Awaited].req = 0
    /\ isVideo(Ext(items[Awaited].file))
    /\ DispatchState(items[Awaited].file)
    /\ items' = [items EXCEPT ![Awaited].req = nextReq]
    /\ UNCHANGED <<unloaded, observed, aborted, passPc, config, sortedFiles,
                   filesToDisplay, nextIndex, infoBar, nodes>>
    /\ UNCHANGED <<lruVars, loadVars, lbVars, viewVars, zoomVars>>

\* The thumbnail promise such a load awaits is settled: loadVideoElement
\* goes on from line 469 and loadMediaElement ends, lines 439-441
ItemThumbnail ==
    /\ passPc = "load"
    /\ items[Awaited].req # 0
    /\ reqs[items[Awaited].req].outcome \notin {"pending", "capture"}
    /\ items' = [items EXCEPT ![Awaited] =
           [@ EXCEPT !.content =
                         VideoCellContent(reqs[items[Awaited].req].outcome),
                     !.clickable =
                         IdleCallbackAttaches(Ext(items[Awaited].file))]]
    /\ pendingRequests' = PendingDelete(pendingRequests, items[Awaited].file, FALSE)
    /\ passPc' = AfterItem(nextIndex - 1)
    /\ UNCHANGED loads
    /\ UNCHANGED <<unloaded, observed, aborted, config, sortedFiles,
                   filesToDisplay, nextIndex, infoBar, nodes>>
    /\ UNCHANGED <<lruVars, poolVars, lbVars, viewVars, zoomVars>>

\* The observer reports cell c intersecting (lines 387-394):
\* loadMediaElement(item), lines 401-435, from its call to its first await
\* or its return, and unobserve. present: the files the vault still has;
\* fileData.allFiles is the list of the pass (line 367).
ObserverLoad(c, present, resourceThrows) ==
    /\ c \in observed
    /\ observed' = observed \ {c}
    /\ LET file == items[c].file
           allMediaFiles == SelectSeq(filesToDisplay, LAMBDA f : f \in present)
           item == [items[c] EXCEPT !.index = c - 1, !.allFiles = allMediaFiles]
       IN  IF file \notin present \/ file \in pendingRequests
           THEN \* lines 414, 417-419
                UNCHANGED <<items, pendingRequests>>
           ELSE IF resourceThrows
           THEN \* lines 421, 427, 436-441
                /\ items' = [items EXCEPT ![c] =
                       [item EXCEPT !.content = CellAfterThrow("")]]
                /\ pendingRequests' =
                     PendingDelete(PendingSet(pendingRequests, file), file, TRUE)
           ELSE IF isAudio(Ext(file))
           THEN \* lines 433-435, 513-531, 439-441
                /\ items' = [items EXCEPT ![c] =
                       [item EXCEPT !.content = "audio",
                                    !.clickable = IdleCallbackAttaches(Ext(file))]]
                /\ pendingRequests' =
                     PendingDelete(PendingSet(pendingRequests, file), file, FALSE)
           ELSE \* lines 429-432: suspended at the await
                /\ items' = [items EXCEPT ![c] = [item EXCEPT !.content = "loading"]]
                /\ pendingRequests' = PendingSet(pendingRequests, file)
    /\ UNCHANGED loads
    /\ UNCHANGED <<unloaded, aborted, passPc, config, sortedFiles,
                   filesToDisplay, nextIndex, infoBar, nodes>>
    /\ UNCHANGED <<lruVars, poolVars, lbVars, viewVars, zoomVars>>

\* The load the observer started for cell c ends, lines 436-441, as
\* shipped (see ItemLoaded); failed: the element loader threw
LazyLoaded(c, failed) ==
    /\ config.enableLazyLoad
    /\ c \in DOMAIN items
    /\ items[c].content = "loading"
    /\ LET file == items[c].file
       IN  /\ items' = [items EXCEPT ![c] =
                  IF failed
                  THEN [@ EXCEPT !.content = CellAfterThrow("loading")]
                  ELSE [@ EXCEPT
                          !.content =
                              IF isImage(Ext(file)) THEN "img"
                              ELSE VideoCellContent(LookupOutcome(cache, file)),
                          !.clickable = IdleCallbackAttaches(Ext(file))]]
           /\ pendingRequests' = PendingDelete(pendingRequests, file, failed)
    /\ UNCHANGED loads
    /\ UNCHANGED <<unloaded, observed, aborted, passPc, config, sortedFiles,
                   filesToDisplay, nextIndex, infoBar, nodes>>
    /\ UNCHANGED <<lruVars, poolVars, lbVars, viewVars, zoomVars>>

\* The click handler of cell c, lines 455-461: allMediaFiles || [file] is
\* the list (an array is never falsy), index || 0 the index
ItemClick(c) ==
    /\ c \in DOMAIN items
    /\ items[c].clickable
    /\ OpenMediaLightbox(items[c].allFiles, items[c].index,
                         IF config.enableLazyLoad THEN c ELSE GalleryArray,
                         "attached")

\* onunload, lines 975-995: the overlay is removed from the document (no
\* cleanup event is dispatched and closeLightbox is not called, so what the
\* instance on display leaves behind is what a later openMediaLightbox
\* leaves), the observer is disconnected, the workers are terminated and
\* the pool, the cache and the pending set are emptied
Onunload ==
    /\ ~unloaded
    /\ unloaded' = TRUE
    /\ zombies' = IF lbOpen THEN Append(zombies, Leftover) ELSE zombies
    /\ lbOpen' = FALSE
    /\ keyHandler' = FALSE
    /\ wheelHandler' = FALSE
    /\ timerRunning' = FALSE
    /\ thumbs' = {}
    /\ MediaGone
    /\ observed' = {}
    /\ workerPool' = <<>>
    /\ LRUClear
    /\ pendingRequests' = {}
    /\ lbCall' = [op |-> "onunload", direction |-> 0]
    /\ UNCHANGED loads
    /\ UNCHANGED <<poolInit, now, nextReq, reqs, watchdogs, lastLookup>>
    /\ UNCHANGED <<mediaFiles, currentIndex, randomMode, openedAt, navLog>>
    /\ UNCHANGED <<slideshowActive, intervalDisabled, opens, filesRef,
                   lbContainer, deletedInSession, refreshTimers>>
    /\ UNCHANGED galleryVars
    /\ UNCHANGED <<aborted, passPc, config, sortedFiles, filesToDisplay,
                   nextIndex, items, infoBar, nodes>>

\* ------------------------------------------------------------------------
\* The state after construction of the plugin (lines 33-40)
\* ------------------------------------------------------------------------
Init ==
    InitLRU /\ InitPool /\ InitLoad /\ InitLightbox /\ InitViewer /\ InitRender

\* ------------------------------------------------------------------------
\* Specification of the cache under an arbitrary client
\* ------------------------------------------------------------------------
ClientGet(key) ==
    LRUGet(key) /\ UNCHANGED <<poolVars, loadVars, renderVars, lbVars, viewVars, zoomVars>>

ClientSet(key, value) ==
    LRUSet(key, value) /\ UNCHANGED <<poolVars, loadVars, renderVars, lbVars, viewVars, zoomVars>>

ClientClear ==
    LRUClear /\ UNCHANGED <<poolVars, loadVars, renderVars, lbVars, viewVars, zoomVars>>

NextCache ==
    \/ \E key \in Keys : ClientGet(key)
    \/ \E key \in Keys, value \in Values : ClientSet(key, value)
    \/ ClientClear

SpecCache == Init /\ [][NextCache]_vars

\* ------------------------------------------------------------------------
\* Claims about the cache (checked under SpecCache)
\* ------------------------------------------------------------------------

\* The key of c that was touched (get hit or set) longest ago, by the history
LeastRecentlyTouched(c, r) ==
    CHOOSE k \in MapKeys(c) :
        \A j \in MapKeys(c) :
            (CHOOSE i \in DOMAIN r : r[i] = k) <= (CHOOSE i \in DOMAIN r : r[i] = j)

\* The entries of c other than key's, in order
Others(c, key) == SelectSeq(c, LAMBDA e : e.key # key)

\* C1: for any sequence of get, set and clear the number of entries never
\* exceeds maxSize.
C1_SizeBounded == Len(cache) <= maxSize

\* C1 witness: a set of a further key has just been made on a full cache.
C1_Witness ==
    /\ lruCall.op = "set"
    /\ Len(cache) = maxSize
    /\ Len(recency) > maxSize
    /\ cache[Len(cache)].key = lruCall.key

\* C2 (step): a set of a new key into a full cache evicts exactly one entry,
\* the one least recently touched by get or set.
C2_EvictStep ==
    (/\ lruCall'.op = "set"
     /\ ~MapHas(cache, lruCall'.key)
     /\ Len(cache) >= maxSize)
    => /\ MapKeys(cache') =
            (MapKeys(cache) \ {LeastRecentlyTouched(cache, recency)})
                \cup {lruCall'.key}
       /\ Len(cache') = Len(cache)

\* C2 (run): after maxSize+1 distinct keys were set into an empty cache with
\* no get in between, the first is absent and all others are present.
C2_InsertRun ==
    (insertRun.ok /\ Len(insertRun.keys) = maxSize + 1)
    => /\ ~MapHas(cache, insertRun.keys[1])
       /\ \A i \in 2 .. (maxSize + 1) : MapHas(cache, insertRun.keys[i])

\* C2: a set of a new key into a full cache evicts exactly the least recently
\* touched entry; after maxSize+1 distinct inserts without gets the first
\* inserted key is absent and all others are present.
C2_EvictsLeastRecent == [][C2_EvictStep]_vars /\ []C2_InsertRun

\* C2 witness: maxSize+1 distinct keys have been inserted with no get.
C2_Witness ==
    /\ insertRun.ok
    /\ Len(insertRun.keys) = maxSize + 1
    /\ Len(cache) = maxSize

\* C3 (get, miss): returns undefined, cache unchanged.
C3_GetMiss ==
    (lruCall'.op = "get" /\ ~MapHas(cache, lruCall'.key))
    => (lruResult' = undefined /\ cache' = cache)

\* C3 (get, hit): returns the value and only moves the key to the end.
C3_GetHit ==
    (lruCall'.op = "get" /\ MapHas(cache, lruCall'.key))
    => /\ lruResult' = MapGet(cache, lruCall'.key)
       /\ cache' = Append(Others(cache, lruCall'.key),
                          [key |-> lruCall'.key,
                           value |-> MapGet(cache, lruCall'.key)])

\* C3 (set, present key): only that key's value and recency change.
C3_SetPresent ==
    (lruCall'.op = "set" /\ MapHas(cache, lruCall'.key))
    => cache' = Append(Others(cache, lruCall'.key),
                       [key |-> lruCall'.key, value |-> lruCall'.value])

\* C3: get on a missing key returns absent and changes nothing; get on a
\* present key returns its value and only moves that key to most recently
\* used; set on a present key only updates that key's value and recency and
\* evicts nothing.
C3_GetSetFrame == [][C3_GetMiss /\ C3_GetHit /\ C3_SetPresent]_vars

\* C3 witness: a get hit has just moved a key past another entry.
C3_Witness ==
    /\ lruCall.op = "get"
    /\ lruResult # undefined
    /\ Len(cache) >= 2
    /\ cache[Len(cache)].key = lruCall.key

\* ------------------------------------------------------------------------
\* Specification of the worker pool: thumbnail requests, worker answers and
\* watchdog timers in any order. GetVideoThumbnailWorker is the function as
\* shipped, which ends at the lookup of line 169; Dispatch enters the code
\* behind that lookup (lines 173-207) for paths the cache does not hold, so
\* that the dispatch protocol itself is exercised. Everything those lines
\* call, getVideoThumbnailFallback included, behaves as shipped.
\* ------------------------------------------------------------------------
NextPool ==
    \/ \E supported \in BOOLEAN : InitWorkerPool(supported)
    \/ Tick
    \/ \E path \in Paths : GetVideoThumbnailWorker(path)
    \/ \E path \in Paths : Dispatch(path)
    \/ \E n \in 1 .. MaxRequests, kind \in {"thumbnail", "error"} :
          WorkerResponse(n, kind)
    \/ WatchdogTimeout

SpecPool == Init /\ [][NextPool]_vars

\* ------------------------------------------------------------------------
\* Claims about the worker pool (checked under SpecPool)
\* ------------------------------------------------------------------------

\* Request n was dispatched to a slot and has neither had its response
\* handled nor timed out
InFlight(n) ==
    /\ reqs[n].kind = "dispatched"
    /\ ~reqs[n].responded
    /\ ~reqs[n].timedOut

C30_Step ==
    \A path \in Paths :
        (GetVideoThumbnailWorker(path) /\ FirstIdle(workerPool) = 0
                                       /\ ~MapHas(cache, path))
        => lastLookup'.outcome # "TypeError"

\* C30 (state): a request that found no idle slot has no slot, no message
\* and no timer, now or later, and the fallback was started for it once and
\* has not failed it at its first statement.
C30_State ==
    \A n \in 1 .. MaxRequests :
        reqs[n].kind = "fallback"
        => /\ reqs[n].slot = 0
           /\ reqs[n].msg = "none"
           /\ ~reqs[n].listener
           /\ n \notin Range(watchdogs)
           /\ reqs[n].fallbackCalls = 1
           /\ reqs[n].outcome # "TypeError"

\* C30: a thumbnail request that finds no idle slot (all slots busy, or the
\* pool empty because workers are unsupported) is served by the fallback
\* path at once; it is never queued for a slot and never dispatched to a
\* worker later.
C30_NoIdleSlotServedByFallback == [][C30_Step]_vars /\ []C30_State

\* C31 (state): two requests in flight at the same time have different ids.
C31_State ==
    \A n, m \in 1 .. MaxRequests :
        (n # m /\ InFlight(n) /\ InFlight(m)) => reqs[n].id # reqs[m].id

\* C31 (step): the answer to the message of request n is handled by no
\* other request.
C31_Step ==
    \A n \in 1 .. MaxRequests, kind \in {"thumbnail", "error"} :
        WorkerResponse(n, kind)
        => Handlers(reqs, reqs[n].slot, reqs[n].id) \subseteq {n}

NextLoad ==
    \/ \E l \in 1 .. MaxLoads, path \in Paths, lazy, exists, resourceThrows \in BOOLEAN :
          LoadMediaElement(l, path, lazy, exists, resourceThrows)
    \/ \E l \in 1 .. MaxLoads, failed \in BOOLEAN : LoadMediaElementExit(l, failed)
    \/ CreateGallery

SpecLoad == Init /\ [][NextLoad]_vars

\* ------------------------------------------------------------------------
\* Claims about the loader (checked under SpecLoad)
\* ------------------------------------------------------------------------

Loading(l) == loads[l].pc = "loading"

\* C8: at any time at most one load of a given path is in flight.
C8_OneLoadPerPath ==
    \A path \in Paths :
        Cardinality({l \in 1 .. MaxLoads : Loading(l) /\ loads[l].path = path}) <= 1

\* C9 (step): a load that leaves loadMediaElement after registering its path
\* leaves the path unregistered, on success and on failure.
C9_ExitStep ==
    \A l \in 1 .. MaxLoads :
        (loads[l].pc \in {"idle", "loading"} /\ loads'[l].pc \in {"done", "error"})
        => loads'[l].path \notin pendingRequests'

\* C9 (state): whenever no load is in flight the pending-request set is empty.
C9_IdleEmpty ==
    (\A l \in 1 .. MaxLoads : ~Loading(l)) => pendingRequests = {}

\* C9: every load that registers its path in the pending-request set
\* removes it when it exits, on success and on failure, so whenever no load
\* is in flight the set is empty.
C9_PendingReleased == [][C9_ExitStep]_vars /\ []C9_IdleEmpty

\* C9 witness: one load has exited by failure after its await and another
\* by success, and nothing is in flight.
C9_Witness ==
    /\ \E l1, l2 \in 1 .. MaxLoads :
          /\ loads[l1].pc = "error" /\ isImage(Ext(loads[l1].path))
          /\ loads[l2].pc = "done" /\ isVideo(Ext(loads[l2].path))
    /\ \A l \in 1 .. MaxLoads : ~Loading(l)
    /\ pendingRequests = {}

\* ------------------------------------------------------------------------
\* Specification of the lightbox: opening, random toggle and navigation in
\* any order
\* ------------------------------------------------------------------------
NextLightbox ==
    \/ \E length \in 1 .. MaxFiles :
          \E startIndex \in 0 .. (length - 1) :
              opens < MaxOpens /\ OpenDirect(length, startIndex)
    \/ ToggleRandom
    \/ \E direction \in {1, -1} : Navigate(direction)

SpecLightbox == Init /\ [][NextLightbox]_vars

\* ------------------------------------------------------------------------
\* Specification of a gallery and the lightbox opened from its cells: the
\* user clicks cells, buttons, thumbnails and keys and deletes files in any
\* order, timers fire
\* ------------------------------------------------------------------------
NextViewer ==
    \/ \E lazy \in BOOLEAN : HostRender(lazy)
    \/ \E c \in 1 .. NumVault : CellLoaded(c)
    \/ \E c \in 1 .. NumVault : opens < MaxSessions /\ CellClick(c)
    \/ ToggleRandom
    \/ \E direction \in {1, -1} : NavButton(direction)
    \/ \E i \in 0 .. (NumVault - 1) : ThumbClick(i)
    \/ ToggleSlideshow
    \/ SlideshowTick
    \/ CloseLightbox
    \/ \E key \in Keys4 : KeyDown(key)
    \/ \E answer \in BOOLEAN, outcome \in {"ok", "throws", "rejects"} :
          DeleteCurrentFile(answer, outcome)
    \/ RefreshFires

SpecViewer == Init /\ [][NextViewer]_vars

\* ------------------------------------------------------------------------
\* Specification of a gallery whose cells are clicked while a lightbox is
\* open: slideshow, keys and close, and what earlier instances left behind
\* ------------------------------------------------------------------------
NextReopen ==
    \/ \E lazy \in BOOLEAN : HostRender(lazy)
    \/ \E c \in 1 .. NumVault : CellLoaded(c)
    \/ \E c \in 1 .. NumVault : opens < MaxOpens /\ CellClick(c)
    \/ \E direction \in {1, -1} : NavButton(direction)
    \/ ToggleSlideshow
    \/ SlideshowTick
    \/ CloseLightbox
    \/ \E key \in Keys4 : KeyDown(key)
    \/ \E k \in 1 .. MaxOpens : LeftoverTick(k)
    \/ RefreshFires

SpecReopen == Init /\ [][NextReopen]_vars

\* ------------------------------------------------------------------------
\* Specification of the zoom of the image on display: a lightbox on a short
\* list, navigation, and the pointer and wheel over the image
\* ------------------------------------------------------------------------
NextZoom ==
    \/ \E length \in 1 .. ZoomFiles : opens < MaxOpens /\ OpenDirect(length, 0)
    \/ Navigate(1)
    \/ ZoomClick
    \/ ZoomContextMenu
    \/ \E deltaY \in {0 - 1, 1} : ZoomWheel(deltaY)
    \/ \E nx \in Pointer, ny \in Pointer : ZoomMouseMove(nx, ny)

SpecZoom == Init /\ [][NextZoom]_vars

\* ------------------------------------------------------------------------
\* Claims about the lightbox (checked under SpecLightbox)
\* ------------------------------------------------------------------------

\* C10 (step): with random mode off a navigation moves the index by one
\* with wraparound: next from the last item gives 0, previous from 0 gives
\* the last item, and a single-item list keeps its index.
C10_Step ==
    (lbCall'.op = "navigate" /\ ~randomMode /\ lbOpen)
    => LET L == Len(mediaFiles)
           d == lbCall'.direction
       IN  /\ d = 1 => currentIndex' =
                          IF currentIndex = L - 1 THEN 0 ELSE currentIndex + 1
           /\ d = -1 => currentIndex' =
                          IF currentIndex = 0 THEN L - 1 ELSE currentIndex - 1
           /\ currentIndex' = (currentIndex + d + L) % L
           /\ L = 1 => currentIndex' = currentIndex

\* C10 (scenario): opened at index 2 of a 5-item list, three next steps
\* land on index 0.
C10_Scenario ==
    (lbOpen /\ Len(mediaFiles) = 5 /\ openedAt = 2 /\ navLog = <<1, 1, 1>>)
    => currentIndex = 0

\* C10: with random mode off, navigate(direction) on a list of length L sets
\* currentIndex to (currentIndex + direction + L) mod L for direction +1 and
\* -1, with the wraparound cases and the 2 -> 3 -> 4 -> 0 scenario.
C10_NavigateWraps == [][C10_Step]_vars /\ []C10_Scenario

\* C10 witness: the scenario has been played, and the last step wrapped.
C10_Witness ==
    /\ lbOpen
    /\ Len(mediaFiles) = 5
    /\ openedAt = 2
    /\ navLog = <<1, 1, 1>>
    /\ lbCall = [op |-> "navigate", direction |-> 1]
    /\ currentIndex = 0

\* C11 (step): with random mode on a navigation yields an index of the
\* list; on a list longer than one it differs from the index before the
\* call, on a single-item list it is the only index.
C11_Step ==
    (lbCall'.op = "navigate" /\ randomMode /\ lbOpen)
    => LET L == Len(mediaFiles)
       IN  /\ currentIndex' \in 0 .. (L - 1)
           /\ L > 1 => currentIndex' # currentIndex
           /\ L = 1 => currentIndex' = currentIndex

\* C11: with random mode on, a navigation on a list of length L > 1 never
\* leaves currentIndex at its value before the call and always yields an
\* index in 0..L-1; for L = 1 it keeps the only index.
C11_RandomMoves == [][C11_Step]_vars

\* C11 witness: a random navigation has just been made on a list of two or
\* more files.
C11_Witness ==
    /\ lbOpen
    /\ randomMode
    /\ lbCall.op = "navigate"
    /\ Len(mediaFiles) > 1
    /\ navLog = NavLogBroken

\* ------------------------------------------------------------------------
\* Claims about the lightbox sessions of a gallery (checked under SpecViewer)
\* ------------------------------------------------------------------------

\* C12 (state): while the lightbox is open the index is an index of the list.
C12_IndexInRange ==
    lbOpen => (0 <= currentIndex /\ currentIndex < Len(mediaFiles))

\* C12 (step): a delete that leaves the list non-empty sets currentIndex to
\* min(old index, new length - 1).
C12_DeleteStep ==
    (lbCall'.op = "delete" /\ Len(mediaFiles') < Len(mediaFiles)
                           /\ mediaFiles' # <<>>)
    => currentIndex' = Min(currentIndex, Len(mediaFiles') - 1)

\* C12: while the lightbox is open 0 <= currentIndex < length(mediaFiles)
\* holds after any sequence of navigations, random navigations, thumbnail
\* clicks, slideshow ticks and confirmed deletes; a delete that leaves the
\* list non-empty sets currentIndex to min(old index, new length - 1).
C12_IndexValid == []C12_IndexInRange /\ [][C12_DeleteStep]_vars

\* C12 witness: the file at the last index has just been deleted and the
\* index was clamped to the new last index.
C12_Witness ==
    /\ lbOpen
    /\ lbCall.op = "delete"
    /\ lbCall.notice = "deleted"
    /\ lbCall.index = Len(mediaFiles)
    /\ currentIndex = Len(mediaFiles) - 1

\* C13 (step): the delete of the last remaining file closes the lightbox and
\* sets one refresh timer.
C13_Step ==
    (lbCall'.op = "delete" /\ mediaFiles # <<>> /\ mediaFiles' = <<>>)
    => (~lbOpen' /\ Len(refreshTimers') = Len(refreshTimers) + 1)

\* C13: deleting the last remaining file closes the lightbox and the
\* originating gallery receives exactly one refresh notification for it.
C13_DeleteToEmptyOneRefresh == [][C13_Step]_vars

\* ------------------------------------------------------------------------
\* Claims about lightboxes opened one over the other (checked under
\* SpecReopen)
\* ------------------------------------------------------------------------

\* C14: when a lightbox is opened while another is open, the earlier
\* instance's slideshow timer is cleared and its keyboard listener is
\* detached, so nothing of an earlier instance is left to act.
C14_EarlierTornDown ==
    \A k \in DOMAIN zombies :
        ~zombies[k].keyHandler /\ ~zombies[k].timerRunning

\* C15: after closeLightbox has run for an instance its slideshow timer is
\* cleared and its keyboard and wheel handlers are detached.
C15_ClosedDetached ==
    /\ ~lbOpen => (~keyHandler /\ ~wheelHandler /\ ~timerRunning)
    /\ \A k \in DOMAIN zombies :
          zombies[k].closed => (~zombies[k].keyHandler /\ ~zombies[k].timerRunning)

\* ------------------------------------------------------------------------
\* Claims about closing and deleting in a gallery's lightbox (checked under
\* SpecViewer)
\* ------------------------------------------------------------------------

\* C16 as stated (step): a close sets the refresh timer if a file was
\* deleted in the session and sets none otherwise.
C16_StatedStep ==
    (lbCall'.op = "close" /\ lbOpen)
    => Len(refreshTimers') =
          Len(refreshTimers) + (IF deletedInSession THEN 1 ELSE 0)

C16_AmendedStep ==
    (lbCall'.op = "close" /\ lbOpen)
    => refreshTimers' = Append(refreshTimers, lbContainer)

C17_Step ==
    (/\ lbCall'.op = "delete"
     /\ lbCall'.requested
     /\ lbCall'.outcome \in {"throws", "rejects"})
    => (/\ lbCall'.notice = "error"
        /\ UNCHANGED <<mediaFiles, currentIndex, lbOpen>>)

\* C17: if the external delete call fails, the failure is surfaced as a
\* notification and the lightbox state is the same as before the delete.
C17_FailedDeleteChangesNothing == [][C17_Step]_vars

\* C18 (step): a delete whose confirmation is declined requests nothing from
\* the store, changes neither list nor index, and sets no refresh timer.
C18_Step ==
    (lbCall'.op = "delete" /\ ~lbCall'.answer)
    => (/\ ~lbCall'.requested
        /\ UNCHANGED <<mediaFiles, currentIndex, lbOpen, vault, refreshTimers,
                       galleryFiles, cellFiles>>)

\* C18: delete acts only after explicit confirmation: when the user
\* declines, no deletion is requested, the file list and the index are
\* unchanged, and no refresh notification is scheduled.
C18_DeclinedDeleteDoesNothing == [][C18_Step]_vars

\* C18 witness: the user has just declined the confirmation on an open
\* lightbox with files in the store.
C18_Witness ==
    /\ lbOpen
    /\ lbCall.op = "delete"
    /\ ~lbCall.answer
    /\ mediaFiles[currentIndex + 1] \in vault
    /\ refreshTimers = <<>>

\* C19: deleting a file in the lightbox does not mutate the file list held
\* by the gallery that opened it, in lazy and in eager mode: the array of the
\* render pass stays as the pass made it.
C19_GalleryListNotMutated == galleryFiles = renderedFiles

\* ------------------------------------------------------------------------
\* Claims about the zoom (checked under SpecZoom)
\* ------------------------------------------------------------------------

\* C20: for the image shown, the zoom level stays within [1,5] after any
\* sequence of left clicks, right clicks, wheel steps and pointer moves, and
\* whenever the zoom level is 1 the pan offset is (0,0).
C20_ZoomBounded ==
    zoomShown
    => /\ MinZoom * ZoomUnit <= zoomLevel
       /\ zoomLevel <= MaxZoom * ZoomUnit
       /\ zoomLevel = MinZoom * ZoomUnit => (panX = 0 /\ panY = 0)

\* C20 witness: a handler has just brought a panned image back to zoom 1.
C20_Witness ==
    /\ zoomShown
    /\ lbCall.op = "zoom"
    /\ lbCall.panned
    /\ zoomLevel = MinZoom * ZoomUnit
    /\ panX = 0
    /\ panY = 0

\* ------------------------------------------------------------------------
\* Specification of a gallery whose video thumbnails are cached while files
\* are deleted in its lightbox and the gallery is refreshed. Thumbnails are
\* requested for video files only (line 469); Dispatch enters the code
\* behind the lookup of line 169 as in SpecPool.
\* ------------------------------------------------------------------------
VideoPaths == {path \in Paths : isVideo(Ext(path))}

NextRefresh ==
    \/ \E supported \in BOOLEAN : InitWorkerPool(supported)
    \/ \E path \in VideoPaths : Dispatch(path)
    \/ \E n \in 1 .. MaxRequests, kind \in {"thumbnail", "error"} :
          WorkerResponse(n, kind)
    \/ \E lazy \in BOOLEAN : HostRender(lazy)
    \/ \E c \in 1 .. NumVault : CellLoaded(c)
    \/ \E c \in 1 .. NumVault : opens < MaxSessions /\ CellClick(c)
    \/ \E answer \in BOOLEAN, outcome \in {"ok", "throws", "rejects"} :
          DeleteCurrentFile(answer, outcome)
    \/ RefreshFires

SpecRefresh == Init /\ [][NextRefresh]_vars

\* ------------------------------------------------------------------------
\* Claims about the cache across render passes (checked under SpecRefresh)
\* ------------------------------------------------------------------------

\* C21 (step): the first render pass of a gallery leaves the cache empty; a
\* refresh timer that fires after a file was deleted in the lightbox leaves
\* every cached entry cached.
C21_Step ==
    /\ (~galleryRendered /\ galleryRendered') => cache' = <<>>
    /\ (Len(refreshTimers') < Len(refreshTimers) /\ deletedInSession)
       => \A i \in DOMAIN cache : \E j \in DOMAIN cache' : cache'[j] = cache[i]

C24_State ==
    lbOpen => /\ timerRunning <=> slideshowActive
              /\ intervalDisabled <=> timerRunning

\* C24 (step): setInterval is called on an instance (its slideshowActive
\* turns true) only when no interval of that instance is set.
C24_Step ==
    (opens' = opens /\ ~slideshowActive /\ slideshowActive') => ~timerRunning

\* C24: a lightbox instance never has more than one slideshow timer running,
\* for any sequence of slideshow-button clicks and Space key presses; while
\* the lightbox is open a timer is running exactly when slideshowActive is
\* true, and the interval input is disabled exactly while it is running.
C24_OneSlideshowTimer == []C24_State /\ [][C24_Step]_vars

\* C24 witness: the slideshow of the instance on display was started,
\* stopped and started again by the button or the Space key (a tick of the
\* running timer has moved the index in between), and its timer is running.
C24_Witness ==
    /\ lbOpen
    /\ lbCall.op = "toggleSlideshow"
    /\ slideshowActive
    /\ timerRunning
    /\ intervalDisabled
    /\ currentIndex # openedAt

\* ------------------------------------------------------------------------
\* Specification of render passes: the host renders code blocks with any
\* config over any discovered files and the cancellation signal may fire at
\* any await. One pass is followed: a later pass starts from the state
\* the first one starts from.
\* ------------------------------------------------------------------------
NextRender ==
    \/ \E cfg \in Configs : passPc = "none" /\ CreateGalleryBegin(cfg)
    \/ AbortFires
    \/ /\ passPc = "discovery"
       /\ \E found \in Discoveries, threw \in BOOLEAN :
             \E shuffled \in (IF config.sortOrder = "random"
                              THEN Shuffles(found) ELSE {found}) :
                 DiscoveryReturns(found, threw, shuffled)
    \/ RenderBatchLazy
    \/ \E resourceThrows \in BOOLEAN : RenderItemEager(resourceThrows)
    \/ \E failed \in BOOLEAN : ItemLoaded(failed)

SpecRender == Init /\ [][NextRender]_vars

\* ------------------------------------------------------------------------
\* Claims about a render pass (checked under SpecRender)
\* ------------------------------------------------------------------------

\* C22 (step): while the signal of the pass is aborted no step adds a cell
\* to the grid, another node to the gallery or a text to the info bar, and
\* no error state appears.
C22_Step ==
    (aborted /\ aborted')
    => /\ Len(items') = Len(items)
       /\ nodes' \subseteq nodes
       /\ infoBar' = infoBar

\* C22: once a render pass's cancellation signal has fired, that pass
\* creates no further cells or other DOM nodes in the gallery and shows no
\* error state, wherever in discovery, gallery construction or batch
\* rendering the signal fires; loads in flight may still complete.
C22_NoMutationAfterAbort == [][C22_Step]_vars

\* The files the grid displays, in order
Displayed == [c \in DOMAIN items |-> items[c].file]

\* The pass has rendered a gallery to its end without being cancelled
RenderedWhole == passPc = "done" /\ nodes = {"container"} /\ ~aborted

\* The list is in the order the config asks for
InSortOrder(list, sortOrder) ==
    \A i, j \in DOMAIN list :
        i < j => CASE sortOrder = "date-asc" -> Mtime[list[i]] <= Mtime[list[j]]
                   [] sortOrder = "date-desc" -> Mtime[list[i]] >= Mtime[list[j]]
                   [] sortOrder = "random" -> TRUE
                   [] OTHER -> Name[list[i]] <= Name[list[j]]

\* C25: in compact mode the gallery displays the first `limit`
\* files of the sorted list in sort order and the info bar reports the
\* number of discovered files and the number of files shown; in full mode
\* every discovered file is displayed.
C25_ShownCountReported ==
    RenderedWhole
    => /\ InSortOrder(sortedFiles, config.sortOrder)
       /\ config.displayType = "compact"
          => /\ Displayed = SubSeq(sortedFiles, 1, Min(config.limit, Len(sortedFiles)))
             /\ infoBar.found = Len(sortedFiles)
             /\ infoBar.showingFirst = Len(items)
       /\ config.displayType = "full" => Displayed = sortedFiles

\* C33: a render pass that is not cancelled ends with exactly one cell per
\* file to display, in file order, for every list length and every positive
\* batch size, in lazy and in eager mode.
C33_OneCellPerFileInOrder ==
    RenderedWhole => Displayed = filesToDisplay

\* C33 witness: a pass of more than one batch, the last of them short, has
\* ended with a cell for each file, in lazy mode and in eager mode.
C33_Witness ==
    /\ RenderedWhole
    /\ Displayed = filesToDisplay
    /\ Len(items) = 3
    /\ BatchSize(config) = 2

\* C37 (step): every call of renderBatchItems and every turn of its loop
\* in a pass that is not cancelled moves the start index up, and never past
\* the end of the list.
C37_Step ==
    (~aborted /\ (RenderBatchLazy \/ \E resourceThrows \in BOOLEAN :
                                        RenderItemEager(resourceThrows)))
    => /\ nextIndex' > nextIndex
       /\ nextIndex' <= Len(filesToDisplay)

\* C37 (state): the start index of a pass is an index of the list to display
\* or its length.
C37_State == 0 <= nextIndex /\ nextIndex <= Len(filesToDisplay)

\* C37: the batch render pass terminates for every file list and every
\* batch size that parseConfig can produce from a `batch:` line, including
\* negative values: the distance of the start index to the end of the list
\* goes down with every batch.
C37_BatchPassTerminates == [][C37_Step]_vars /\ []C37_State

\* C37 for the positive batch sizes
C37_PositiveStep == BatchSize(config) > 0 => C37_Step

C37_PositiveTerminates ==
    [][C37_PositiveStep]_vars /\ [](BatchSize(config) > 0 => C37_State)

\* C29 (step): a throw in the load of an eager cell, before or after its
\* await, leaves that cell in the error state, leaves the rest of the
\* gallery as it was and lets the batch loop go on.
C29_Step ==
    /\ (/\ passPc = "batch"
        /\ ~aborted
        /\ BatchSize(config) > 0
        /\ RenderItemEager(TRUE))
       => /\ items'[Len(items')].content = "error"
          /\ nodes' = nodes
          /\ passPc' = AfterItem(nextIndex)
    /\ (passPc = "load" /\ ItemLoaded(TRUE))
       => /\ items'[Awaited].content = "error"
          /\ nodes' = nodes
          /\ passPc' = AfterItem(nextIndex - 1)

\* C29 (state): an eager pass that ran to its end uncancelled has made a
\* cell for every file to display and every cell is loaded or in the error
\* state.
C29_State ==
    (RenderedWhole /\ ~config.enableLazyLoad)
    => /\ Len(items) = Len(filesToDisplay)
       /\ \A c \in DOMAIN items :
             items[c].content \in {"img", "thumb", "video", "audio", "error"}

\* C29: a failure while loading one cell is caught inside that cell's load:
\* the cell ends in the per-item error state, nothing propagates to the
\* batch loop, and all remaining cells are still created and loaded.
C29_CellFailureContained == [][C29_Step]_vars /\ []C29_State

\* C29 witness: an eager pass ran to its end; the load of its first cell
\* threw and the cells after it are loaded.
C29_Witness ==
    /\ RenderedWhole
    /\ ~config.enableLazyLoad
    /\ Len(items) >= 3
    /\ items[1].content = "error"
    /\ \A c \in 2 .. Len(items) : items[c].content \in {"img", "video", "audio"}

\* ------------------------------------------------------------------------
\* Specification of the cells of a gallery: a pass renders them, lazy cells
\* are loaded as they scroll into view while files disappear from the
\* vault, and loaded cells are clicked
\* ------------------------------------------------------------------------
NextCells ==
    \/ \E cfg \in Configs : passPc = "none" /\ CreateGalleryBegin(cfg)
    \/ /\ passPc = "discovery"
       /\ \E found \in Discoveries, threw \in BOOLEAN :
             \E shuffled \in (IF config.sortOrder = "random"
                              THEN Shuffles(found) ELSE {found}) :
                 DiscoveryReturns(found, threw, shuffled)
    \/ RenderBatchLazy
    \/ \E resourceThrows \in BOOLEAN : RenderItemEager(resourceThrows)
    \/ \E failed \in BOOLEAN : ItemLoaded(failed)
    \/ \E c \in 1 .. NumPaths, present \in SUBSET Paths, resourceThrows \in BOOLEAN :
          ObserverLoad(c, present, resourceThrows)
    \/ \E c \in 1 .. NumPaths, failed \in BOOLEAN : LazyLoaded(c, failed)
    \/ \E c \in 1 .. NumPaths : opens < MaxSessions /\ ItemClick(c)

SpecCells == Init /\ [][NextCells]_vars

\* ------------------------------------------------------------------------
\* Claims about the click on a cell (checked under SpecCells)
\* ------------------------------------------------------------------------

\* The load of cell c has ended with the media of its file in the cell
Loaded(c) ==
    /\ c \in DOMAIN items
    /\ items[c].content \in {"img", "thumb", "video", "audio"}

\* C35: clicking a loaded video cell or a loaded audio cell opens the
\* lightbox on that cell's file, exactly as clicking an image cell does:
\* every loaded cell has the click handler that opens the lightbox.
C35_LoadedCellsClickable ==
    \A c \in 1 .. NumPaths : Loaded(c) => items[c].clickable

\* C35 for image cells
C35_ImageCellsClickable ==
    \A c \in 1 .. NumPaths :
        (Loaded(c) /\ isImage(Ext(items[c].file))) => items[c].clickable

\* C27 (step): a click on a loaded image cell opens the lightbox, and the
\* entry of its list at the index it opens on is the file of that cell.
C27_Step ==
    \A c \in 1 .. NumPaths :
        ItemClick(c)
        => /\ lbOpen'
           /\ currentIndex' < Len(mediaFiles')
           /\ mediaFiles'[currentIndex' + 1] = items[c].file

\* C27: clicking a loaded image cell opens the lightbox with that cell's
\* file as the current item, in eager mode and in lazy mode, also when
\* files of the list have disappeared from the store between rendering and
\* loading.
C27_ClickOpensClickedFile == [][C27_Step]_vars

\* C28 (step): the list the lightbox gets from a click on a cell is the
\* sorted list of all discovered files (when no file of the pass had
\* disappeared from the vault before the cell was loaded).
C28_Step ==
    \A c \in 1 .. NumPaths :
        (ItemClick(c) /\ Len(items[c].allFiles) = Len(filesToDisplay))
        => mediaFiles' = sortedFiles

\* C28: the file list a lightbox receives from a gallery cell is the full
\* discovered file list, not the subset displayed in the grid, also in
\* compact mode where the grid is truncated to `limit` items.
C28_LightboxGetsFullList == [][C28_Step]_vars

\* ------------------------------------------------------------------------
\* Specification of the plugin up to its unloading: the pool is set up, a
\* gallery is rendered, cells are loaded and clicked, the slideshow is
\* started, the thumbnails of video cells are requested behind the lookup of
\* line 169 and answered, and onunload is called at any moment
\* ------------------------------------------------------------------------
NextUnload ==
    \/ \E supported \in BOOLEAN : ~unloaded /\ InitWorkerPool(supported)
    \/ \E cfg \in Configs : passPc = "none" /\ CreateGalleryBegin(cfg)
    \/ /\ passPc = "discovery"
       /\ ~unloaded
       /\ \E found \in Discoveries :
             \E shuffled \in (IF config.sortOrder = "random"
                              THEN Shuffles(found) ELSE {found}) :
                 DiscoveryReturns(found, FALSE, shuffled)
    \/ ~unloaded /\ RenderBatchLazy
    \/ ~unloaded /\ RenderItemEager(FALSE)
    \/ ~unloaded /\ ItemLoaded(FALSE)
    \/ \E c \in 1 .. NumPaths : ~unloaded /\ ObserverLoad(c, Paths, FALSE)
    \/ \E c \in 1 .. NumPaths : ~unloaded /\ LazyLoaded(c, FALSE)
    \/ \E c \in 1 .. NumPaths :
          ~unloaded /\ opens < MaxSessions /\ ItemClick(c)
    \/ ~unloaded /\ ToggleSlideshow
    \/ ~unloaded /\ CloseLightbox
    \/ ~unloaded /\ ItemDispatch
    \/ ~unloaded /\ ItemThumbnail
    \/ \E n \in 1 .. MaxRequests :
          ~unloaded /\ WorkerResponse(n, "thumbnail")
    \/ Onunload

SpecUnload == Init /\ [][NextUnload]_vars

\* C23 (step): what a call of onunload leaves.
C23_Step ==
    (~unloaded /\ unloaded')
    => /\ workerPool' = <<>>
       /\ observed' = {}
       /\ cache' = <<>>
       /\ pendingRequests' = {}
       /\ ~lbOpen'
       /\ lbOpen => LET left == zombies'[Len(zombies')]
                    IN  ~left.timerRunning /\ ~left.keyHandler

\* C23: after teardown (onunload) the worker pool is empty, the viewport
\* observer is disconnected, the thumbnail cache and the pending-request
\* set are empty, and any open lightbox is closed with its slideshow timer
\* cleared and its listeners detached; teardown also succeeds when no
\* gallery or lightbox was ever opened.
C23_TeardownReleasesAll == [][C23_Step]_vars

\* C23 without the lightbox: the pool, the observer, the cache and the
\* pending-request set after onunload
C23_CollectionsStep ==
    (~unloaded /\ unloaded')
    => /\ workerPool' = <<>>
       /\ observed' = {}
       /\ cache' = <<>>
       /\ pendingRequests' = {}
       /\ ~lbOpen'

C23_CollectionsReleased == [][C23_CollectionsStep]_vars

\* ------------------------------------------------------------------------
\* Specification of the video cells of an eager pass: the thumbnail of each
\* is requested behind the lookup of line 169, the worker answers or the
\* 5000 ms timer fires, and the cell is filled. A timer that is set fires
\* and a settled promise runs its continuation.
\* ------------------------------------------------------------------------
NextVideo ==
    \/ \E supported \in BOOLEAN : InitWorkerPool(supported)
    \/ \E cfg \in Configs :
          passPc = "none" /\ ~cfg.enableLazyLoad /\ CreateGalleryBegin(cfg)
    \/ /\ passPc = "discovery"
       /\ \E found \in Discoveries :
             \E shuffled \in (IF config.sortOrder = "random"
                              THEN Shuffles(found) ELSE {found}) :
                 DiscoveryReturns(found, FALSE, shuffled)
    \/ \E resourceThrows \in BOOLEAN : RenderItemEager(resourceThrows)
    \/ \E failed \in BOOLEAN : ItemLoaded(failed)
    \/ ItemDispatch
    \/ ItemThumbnail
    \/ \E n \in 1 .. MaxRequests, kind \in {"thumbnail", "error"} :
          WorkerResponse(n, kind)
    \/ WatchdogTimeout

SpecVideo ==
    /\ Init
    /\ [][NextVideo]_vars
    /\ WF_vars(WatchdogTimeout)
    /\ WF_vars(ItemThumbnail)

\* The request of cell c was dispatched to a worker and timed out unanswered
TimedOutCell(c) ==
    /\ c \in DOMAIN items
    /\ items[c].req # 0
    /\ reqs[items[c].req].kind = "dispatched"
    /\ reqs[items[c].req].timedOut
    /\ ~reqs[items[c].req].responded

\* loadMediaElement of cell c has ended
LoadEnded(c) == c \in DOMAIN items /\ (c < Len(items) \/ passPc # "load")

\* C26 (state): once its load has ended, a video cell whose request timed
\* out shows a thumbnail image if the request ended with a thumbnail and a
\* native video element otherwise.
C26_State ==
    \A c \in 1 .. NumPaths :
        (TimedOutCell(c) /\ LoadEnded(c))
        => items[c].content =
              IF reqs[items[c].req].outcome \in Values THEN "thumb" ELSE "video"

C38_State ==
    \A n \in 1 .. MaxRequests : reqs[n].outcome # "TypeError"

\* C38: every thumbnail request eventually resolves, with a thumbnail or
\* with an absent result, whatever the worker and the video decoder do
\* (answer, report an error, or never answer).
C38_EveryRequestResolves ==
    /\ []C38_State
    /\ \A n \in 1 .. MaxRequests :
          (reqs[n].kind # "unused") ~> (reqs[n].outcome \in Values \cup {"null"})

\* What does hold: every thumbnail request is settled in the end, by a
\* thumbnail of the worker or by the rejection of the fallback
C38_EveryRequestSettles ==
    \A n \in 1 .. MaxRequests :
        (reqs[n].kind # "unused") ~> (reqs[n].outcome \in {"w", "TypeError"})

NextSlideshow ==
    \/ \E length \in 1 .. MaxFiles, startIndex \in 0 .. (MaxFiles - 1) :
          /\ opens < MaxSessions
          /\ startIndex < length
          /\ OpenDirect(length, startIndex)
    \/ \E value \in IntervalInputs : ToggleSlideshowWith(value)
    \/ SlideshowTick
    \/ CloseLightbox

SpecSlideshow == Init /\ [][NextSlideshow]_vars

\* C34: when the slideshow is toggled on, the timer period is the interval
\* input's value in seconds clamped to at least 1 (default 3): for every
\* value of the input, including zero, negative and non-numeric values, the
\* period used is at least 1 second.
C34_PeriodAtLeastOneSecond ==
    (lbCall.op = "toggleSlideshow" /\ slideshowActive)
    => lbCall.period >= 1000

\* C34 for the texts that parseInt does not read as a negative number: the
\* period is the number of seconds read, and 3 seconds for zero and for a
\* text that is no number
C34_NotNegative ==
    (lbCall.op = "toggleSlideshow" /\ slideshowActive
                                   /\ (lbCall.value = <<>> \/ Head(lbCall.value) # "-"))
    => /\ lbCall.period >= 1000
       /\ lbCall.value \in {<<>>, <<"x">>, <<"0">>, <<"0", "0">>, <<"0", "x">>}
          => lbCall.period = 3000

\* ------------------------------------------------------------------------
\* Claims about the highlight of the thumbnail strip
\* ------------------------------------------------------------------------

\* C36: while the lightbox is open, after every navigation, thumbnail click
\* or delete exactly one thumbnail of the strip is highlighted and it is the
\* thumbnail of currentIndex, for lists of any length (the strip shows at
\* most 20 thumbnails).
C36_OneThumbHighlighted ==
    (lbOpen /\ lbCall.op \in {"navigate", "thumb", "delete"})
    => activeThumbs = {currentIndex}

\* C36 for navigation and thumbnail clicks alone, on lists of up to MaxFiles
\* files opened at any index (checked under SpecLightbox)
C36_HighlightFollowsNavigation ==
    (lbOpen /\ lbCall.op \in {"navigate", "thumb"})
    => activeThumbs = {currentIndex}

\* What does hold: at most one thumbnail is highlighted, and it is the one
\* of currentIndex
C36_AtMostOne ==
    (lbOpen /\ lbCall.op \in {"open", "navigate", "thumb", "delete"})
    => activeThumbs \subseteq {currentIndex}

\* ------------------------------------------------------------------------
\* Specification of the loads of the cells of one pass, lazy or eager, over
\* a list that may name a file more than once. The vault does not change.
\* A load that is suspended at its await goes on.
\* ------------------------------------------------------------------------
LazyLoads == \E c \in 1 .. NumPaths, failed \in BOOLEAN : LazyLoaded(c, failed)

EagerLoads == \E failed \in BOOLEAN : ItemLoaded(failed)

NextLazy ==
    \/ \E cfg \in Configs : passPc = "none" /\ CreateGalleryBegin(cfg)
    \/ /\ passPc = "discovery"
       /\ \E found \in Listings :
             \E shuffled \in (IF config.sortOrder = "random"
                              THEN Shuffles(found) ELSE {found}) :
                 DiscoveryReturns(found, FALSE, shuffled)
    \/ RenderBatchLazy
    \/ \E resourceThrows \in BOOLEAN : RenderItemEager(resourceThrows)
    \/ \E c \in 1 .. NumPaths, resourceThrows \in BOOLEAN :
          ObserverLoad(c, Paths, resourceThrows)
    \/ LazyLoads
    \/ EagerLoads

SpecLazy ==
    /\ Init
    /\ [][NextLazy]_vars
    /\ WF_vars(LazyLoads)
    /\ WF_vars(EagerLoads)

\* Cell c has been started on or filled by a load
LoadStarted(c) ==
    /\ c \in DOMAIN items
    /\ items[c].content \in {"loading", "img", "thumb", "video", "audio", "error"}

\* Cell c shows its media or the per-item error state
Shown(c) ==
    /\ c \in DOMAIN items
    /\ items[c].content \in {"img", "thumb", "video", "audio", "error"}

\* C32 (step): the report that cell c has entered the viewport starts the
\* load of c and ends its observation, and a cell that is not observed is
\* not observed again.
C32_Step ==
    /\ \A c \in 1 .. NumPaths :
          (\E resourceThrows \in BOOLEAN : ObserverLoad(c, Paths, resourceThrows))
          => /\ ~LoadStarted(c)
             /\ LoadStarted(c)'
             /\ c \notin observed'
    /\ \A c \in DOMAIN items : c \notin observed => c \notin observed'

\* C32: for every lazy cell, entering the viewport triggers full media
\* loading of that cell exactly once, after which the cell is no longer
\* observed and later visibility changes trigger nothing.
C32_LoadedExactlyOnce == [][C32_Step]_vars

\* What does hold of C32: the load is called once per cell, on a cell no
\* load was started for, and the observation ends
C32_AtMostOnceStep ==
    /\ \A c \in 1 .. NumPaths :
          (\E resourceThrows \in BOOLEAN : ObserverLoad(c, Paths, resourceThrows))
          => /\ ~LoadStarted(c)
             /\ c \notin observed'
    /\ \A c \in DOMAIN items : c \notin observed => c \notin observed'

C32_AtMostOnce == [][C32_AtMostOnceStep]_vars

\* C39 (state): a lazy cell that has left the observation, and an eager
\* cell the loop has gone past, is being loaded or shows its media or the
\* error state.
C39_State ==
    \A c \in DOMAIN items :
        IF config.enableLazyLoad
        THEN c \notin observed => LoadStarted(c)
        ELSE LoadEnded(c) => Shown(c)

\* C39: every cell whose load is triggered (a lazy cell entering the
\* viewport, or any cell in eager mode) eventually shows its media or the
\* per-item error state; no cell stays a placeholder or empty, including
\* when two cells refer to the same file path and their loads overlap.
C39_TriggeredCellShown ==
    /\ []C39_State
    /\ \A c \in 1 .. NumPaths :
          (c \in DOMAIN items /\ items[c].content = "loading") ~> Shown(c)

\* What does hold of C39: a load that was started ends with the media or
\* the error state in the cell, and in eager mode every cell is loaded
C39_StartedLoadEnds ==
    /\ [](\A c \in DOMAIN items :
             (~config.enableLazyLoad /\ LoadEnded(c)) => Shown(c))
    /\ \A c \in 1 .. NumPaths :
          (c \in DOMAIN items /\ items[c].content = "loading") ~> Shown(c)

\* ------------------------------------------------------------------------
\* Specification of the refresh notifications of one gallery: lightboxes
\* are opened from its cells, files are deleted, lightboxes are closed, and
\* the 100 ms timers fire in the order they were set
\* ------------------------------------------------------------------------
NextNotify ==
    \/ \E lazy \in BOOLEAN : HostRender(lazy)
    \/ \E c \in 1 .. NumVault : CellLoaded(c)
    \/ \E c \in 1 .. NumVault : opens < MaxSessions /\ CellClick(c)
    \/ CloseLightbox
    \/ \E answer \in BOOLEAN, outcome \in {"ok", "throws", "rejects"} :
          DeleteCurrentFile(answer, outcome)
    \/ RefreshFires

SpecNotify == Init /\ [][NextNotify]_vars

\* C40 (step): a notification for a container that is not attached leaves
\* the gallery, its cells and the cache as they are; a notification for the
\* attached container re-discovers the files, and no notification that is
\* still scheduled is for an attached container after it.
C40_Step ==
    RefreshFires
    => IF Head(refreshTimers) = "attached"
       THEN /\ lbCall'.rendered
            /\ galleryFiles' = SortedSeq(vault)
            /\ \A k \in DOMAIN refreshTimers' : refreshTimers'[k] # "attached"
       ELSE /\ ~lbCall'.rendered
            /\ UNCHANGED <<galleryFiles, renderedFiles, cellFiles, lbContainer,
                           filesRef, cache, pendingRequests>>

\* C40: a refresh notification for a gallery container that is no longer
\* attached to its parent does nothing, so two refresh notifications
\* scheduled for the same gallery container cause exactly one re-discovery
\* and re-render.
C40_OneRefreshPerContainer == [][C40_Step]_vars

\* C40 witness: a file was deleted, two notifications were scheduled for the
\* container, the first re-rendered the gallery without the file and the
\* second has just fired and done nothing.
C40_Witness ==
    /\ lbCall.op = "refresh"
    /\ ~lbCall.rendered
    /\ refreshTimers = <<>>
    /\ ~lbOpen
    /\ lbContainer = "detached"
    /\ Cardinality(vault) < NumVault
    /\ galleryFiles = SortedSeq(vault)

====
